---- MODULE Spec2Model ----
(***************************************************************************)
(* Model of the incremental synchronization engine of github-issues-sync:  *)
(* the SyncTracker ledger and change-set computation (src/src/cli.js),     *)
(* the two issue classifiers (src/src/utils.js, FileManager), the          *)
(* CacheManager with its cache keys, and the FileManager passes over the   *)
(* output directory: writeIssues with relocation, and the reorganize       *)
(* command (src/docs/github_issues_sync_spec.md).                          *)
(*                                                                         *)
(* JavaScript strings that the code inspects character by character        *)
(* (label names, assignee logins, ledger keys) are sequences of one-       *)
(* character strings; strings the code only copies or compares are TLA+    *)
(* strings.                                                                *)
(***************************************************************************)
EXTENDS Integers, Sequences, FiniteSets, TLC

VARIABLES
    \* ---- classifier harness (utils.js / FileManager) ----
    clsIssues,      \* the issue list handed to the classifiers
    clsByState,     \* outcome of categorizeIssuesByState(clsIssues)
    clsSingle,      \* outcome of categorizeIssue(issue) for each issue
    clsPc,          \* "input" | "classified"
    \* ---- fingerprint harness (SyncTracker.generateIssueHash) ----
    hashA,          \* an issue
    hashB,          \* the same issue after some edits of its fields
    hashOfA,        \* generateIssueHash(hashA), NoHash before it is computed
    hashOfB,        \* generateIssueHash(hashB)
    hashEdits,      \* number of edits applied to hashB
    hashPc,         \* "edit" | "hashed"
    \* ---- SyncTracker (src/src/cli.js) and its caller ----
    syncData,       \* SyncTracker.syncData: lastSync and the issues ledger
    fetchedIssues,  \* the fetched issue list of the current pass
    changes,        \* <<result>> of the last getChangedIssues(fetchedIssues), <<>> once stale
    files,          \* the artifact paths that exist on disk
    now,            \* the clock read by new Date()
    diffed,         \* history: getChangedIssues ran on fetchedIssues, only marks since
    marked,         \* history: indices of fetchedIssues marked since that run
    rediffed,       \* history: changes is the result of diff, mark all, diff
    \* ---- CacheManager (cacheManager.js in docs/github_issues_sync_spec.md) ----
    cacheFiles,     \* the entry files of cacheDir: key -> file
    clock,          \* Date.now()
    lastGet,        \* <<call>> right after a get(key): its input and result
    writeOrder,     \* history: the keys of cacheFiles, least recently written first
    lastSet,        \* <<call>> right after a set(key, data, ttl): its input and outcome
    lastCleanup,    \* <<call>> right after a constructor's cleanupExpiredEntries: store and clock before
    \* ---- CacheManager.generateCacheKey ----
    keyParamsA,     \* a params object
    keyParamsB,     \* a params object built from the same properties in another order
    keyOfA,         \* <<generateCacheKey(prefix, keyParamsA)>>
    keyOfB,         \* <<generateCacheKey(prefix, keyParamsB)>>
    keyPc,          \* "build" | "keyed"
    \* ---- FileManager passes (fileManager.js in docs/github_issues_sync_spec.md) ----
    fmDirs,         \* the category directories that exist under outputDir
    fmFiles,        \* the artifact files under outputDir: [dir, name]
    ledgerFile,     \* the persisted ledger: <<>> when absent, else <<file>>
    tracker,        \* syncTracker.syncData of the pass in progress
    passIssues,     \* the fetched issues handed to writeIssues
    passQueue,      \* the issues writeIssuesByState / writeIssuesFlat still has to write
    passPc,         \* position inside writeIssues
    passNo,         \* the clock: number of commands started
    passLog,        \* history of the command in progress or just ended
    outputConfig,   \* config.getOutputConfig(): group_by_state, auto_reorganize, clean_before_sync
    \* ---- GitHubClient comments (src/src/github.js) ----
    ghComments,     \* GitHub: the number of comments of each issue (the list is 1..n)
    ghCacheDir,     \* the entry files of the client's CacheManager: key -> file
    ghClock,        \* Date.now()
    ghLast,         \* <<call>> right after a client call: its input and result
    ghOwn,          \* history: the comments of each issue at its last createIssueComment
    \* ---- ErrorHandler.retry (errorHandler.js in docs/github_issues_sync_spec.md) ----
    maxRetries,     \* the maxRetries argument
    retryDelay,     \* this.retryDelay
    attempt,        \* the loop variable
    lastError,      \* <<error>> once an attempt failed
    retryCalls,     \* history: the outcomes of the invocations of operation()
    retryWaits,     \* history: the delays of the setTimeout waits
    retryOutcome,   \* <<>> while running, else <<what retry returned or threw>>
    retryPc,        \* "idle" | "call" | "wait" | "done"
    \* ---- GitHubClient.safeGetIssues (src/src/github.js) under safeExecute ----
    seMaxRetries,   \* errorHandler.maxRetries
    seAttempt,      \* the loop variable of retry
    seCalls,        \* history: the outcomes of the calls of getIssues
    seResult,       \* <<>> while running, else <<what safeGetIssues resolved to>>
    sePc,           \* "idle" | "call" | "wait" | "done"
    \* ---- GitHubClient.respectRateLimit (src/src/github.js) ----
    rlNow,          \* Date.now()
    lastRequestTime,\* this.lastRequestTime
    rlWaiting,      \* caller -> <<>>, or <<time its setTimeout fires>> while it awaits
    rlRequests,     \* history: the times at which upstream requests were issued
    \* ---- processRepositoriesInParallel (src/src/cli.js) ----
    repositories,   \* the repositories argument
    concurrency,    \* performanceConfig.concurrent_repos
    parI,           \* the loop variable i of the chunking loop
    chunks,         \* the chunks built so far
    parChunkNo,     \* the index of the chunk being processed
    parRunning,     \* the repositories whose processRepository has not settled
    parResults,     \* history: the results of processRepository, in order of settling
    parPc           \* "idle" | "chunking" | "start" | "await" | "delay" | "done" | "exhausted"

clsVars == <<clsIssues, clsByState, clsSingle, clsPc>>
hashVars == <<hashA, hashB, hashOfA, hashOfB, hashEdits, hashPc>>

syncVars == <<syncData, fetchedIssues, changes, files, now, diffed, marked, rediffed>>

cacheVars == <<cacheFiles, clock, lastGet, writeOrder, lastSet, lastCleanup>>

keyVars == <<keyParamsA, keyParamsB, keyOfA, keyOfB, keyPc>>

fmVars == <<fmDirs, fmFiles, ledgerFile, tracker, passIssues, passQueue, passPc, passNo, passLog,
           outputConfig>>

ghVars == <<ghComments, ghCacheDir, ghClock, ghLast, ghOwn>>

retryVars == <<maxRetries, retryDelay, attempt, lastError, retryCalls, retryWaits, retryOutcome,
              retryPc>>

safeVars == <<seMaxRetries, seAttempt, seCalls, seResult, sePc>>

rateVars == <<rlNow, lastRequestTime, rlWaiting, rlRequests>>

parVars == <<repositories, concurrency, parI, chunks, parChunkNo, parRunning, parResults, parPc>>

vars == <<clsVars, hashVars, syncVars, cacheVars, keyVars, fmVars, ghVars, retryVars, safeVars,
          rateVars, parVars>>

(***************************************************************************)
(* Bounds                                                                  *)
(***************************************************************************)
MaxClsIssues == 2       \* longest issue list handed to the classifiers
MaxHashEdits == 2       \* field edits that separate the two hashed issues
MaxSyncTime == 1        \* last clock value of the SyncTracker runs
MaxCacheTime == 2       \* last clock value of the CacheManager runs
maxCacheSize == 2       \* options.maxCacheSize of the CacheManager under check
defaultTTL == 2         \* options.defaultTTL of the CacheManager under check
MaxPasses == 2          \* sync and reorganize commands run on one output directory

(***************************************************************************)
(* Strings as sequences of UTF-16 code units                               *)
(***************************************************************************)
\* String.prototype.toLowerCase on one character of the alphabet in use
toLowerCaseChar(c) ==
    CASE c = "A" -> "a"
      [] c = "B" -> "b"
      [] c = "F" -> "f"
      [] c = "I" -> "i"
      [] c = "P" -> "p"
      [] OTHER   -> c

\* String.prototype.toLowerCase
toLowerCase(s) == [i \in 1..Len(s) |-> toLowerCaseChar(s[i])]

\* String.prototype.includes
includes(s, sub) ==
    \E i \in 0..(Len(s) - Len(sub)) : SubSeq(s, i + 1, i + Len(sub)) = sub

\* the UTF-16 code unit of a character (ASCII for the alphabet in use)
charCode(c) ==
    CASE c = " " -> 32  [] c = "-" -> 45  [] c = "." -> 46  [] c = "!" -> 33
      [] c = "A" -> 65  [] c = "B" -> 66  [] c = "I" -> 73  [] c = "P" -> 80
      [] c = "F" -> 70  [] c = "f" -> 102 [] c = "m" -> 109 [] c = "w" -> 119
      [] c = "x" -> 120
      [] c = "a" -> 97  [] c = "b" -> 98  [] c = "c" -> 99  [] c = "d" -> 100
      [] c = "e" -> 101 [] c = "g" -> 103 [] c = "i" -> 105 [] c = "k" -> 107
      [] c = "l" -> 108 [] c = "n" -> 110 [] c = "o" -> 111 [] c = "p" -> 112
      [] c = "r" -> 114 [] c = "s" -> 115 [] c = "t" -> 116 [] c = "u" -> 117
      [] c = "v" -> 118
      [] c = "0" -> 48  [] c = "1" -> 49  [] c = "2" -> 50  [] c = "3" -> 51
      [] c = "4" -> 52  [] c = "5" -> 53  [] c = "6" -> 54  [] c = "7" -> 55
      [] c = "8" -> 56  [] c = "9" -> 57

\* the label names that occur in the inputs
L_bug        == <<"b", "u", "g">>
L_blocked    == <<"b", "l", "o", "c", "k", "e", "d">>
L_Blocked    == <<"B", "l", "o", "c", "k", "e", "d">>
L_active     == <<"a", "c", "t", "i", "v", "e">>
L_inactive   == <<"i", "n", "a", "c", "t", "i", "v", "e">>
L_InProgress == <<"I", "n", " ", "P", "r", "o", "g", "r", "e", "s", "s">>
L_in_progress == <<"i", "n", "-", "p", "r", "o", "g", "r", "e", "s", "s">>

\* the search strings of the classifiers
S_blocked     == <<"b", "l", "o", "c", "k", "e", "d">>
S_in_progress == <<"i", "n", " ", "p", "r", "o", "g", "r", "e", "s", "s">>
S_active      == <<"a", "c", "t", "i", "v", "e">>

(***************************************************************************)
(* Issues.  A property that may be missing on the JavaScript object is a   *)
(* record with a presence flag; labels are label objects {name}.           *)
(***************************************************************************)
LabelsAbsent == [present |-> FALSE, list |-> <<>>]
Labels(names) == [present |-> TRUE, list |-> [i \in 1..Len(names) |-> [name |-> names[i]]]]

\* assignee logins
U_al == <<"a", "l">>
U_bo == <<"b", "o">>
U_bob == <<"b", "o", "b">>

AssigneesAbsent == [present |-> FALSE, list |-> <<>>]
Assignees(logins) == [present |-> TRUE, list |-> [i \in 1..Len(logins) |-> [login |-> logins[i]]]]

BodyNull == [null |-> TRUE, text |-> ""]
Body(text) == [null |-> FALSE, text |-> text]

MilestoneUndefined == [kind |-> "undefined", title |-> ""]
MilestoneNull == [kind |-> "null", title |-> ""]
Milestone(title) == [kind |-> "object", title |-> title]

UserAbsent == [present |-> FALSE, login |-> ""]
User(login) == [present |-> TRUE, login |-> login]
Comment(id, body, updated_at, user) ==
    [id |-> id, body |-> body, created_at |-> "t1", updated_at |-> updated_at, user |-> user]
CommentsAbsent == [present |-> FALSE, list |-> <<>>]
Comments(list) == [present |-> TRUE, list |-> list]

ImagesAbsent == [present |-> FALSE, images |-> <<>>, analyses |-> <<>>]
Images(urls, analyses) ==
    [present |-> TRUE,
     images |-> [i \in 1..Len(urls) |-> [originalUrl |-> urls[i]]],
     analyses |-> analyses]

\* an open issue with the given number and nothing optional on it
BaseIssue(n) ==
    [number |-> n, title |-> "Fix login", body |-> Body("steps"), state |-> "open",
     updated_at |-> "t1", labels |-> Labels(<<>>), assignees |-> Assignees(<<>>),
     milestone |-> MilestoneNull, comments |-> CommentsAbsent,
     imageProcessingResult |-> ImagesAbsent]

(***************************************************************************)
(* Classifiers                                                             *)
(***************************************************************************)
isBlockedLabel(label) == includes(toLowerCase(label.name), S_blocked)
isActiveLabel(label) ==
    \/ includes(toLowerCase(label.name), S_in_progress)
    \/ includes(toLowerCase(label.name), S_active)

\* Array.prototype.some
some(list, P(_)) == \E i \in 1..Len(list) : P(list[i])

\* FileManager.categorizeIssue: guards issue.labels before calling some
categorizeIssue(issue) ==
    IF issue.state = "closed" THEN "done"
    ELSE IF issue.labels.present /\ some(issue.labels.list, isBlockedLabel) THEN "blocked"
    ELSE IF issue.labels.present /\ some(issue.labels.list, isActiveLabel) THEN "active"
    ELSE "todo"

\* categorizeOne with the label tests ahead of the state test
categorizeOne_labelsFirst(issue) ==
    IF ~issue.labels.present THEN
        (IF issue.state = "closed" THEN "done" ELSE "TypeError")
    ELSE IF some(issue.labels.list, isBlockedLabel) THEN "blocked"
    ELSE IF some(issue.labels.list, isActiveLabel) THEN "active"
    ELSE IF issue.state = "closed" THEN "done"
    ELSE "todo"

\* the body of the forEach callback of categorizeIssuesByState for one
\* issue: the category list the issue is pushed to, or "TypeError" when
\* issue.labels.some is evaluated on a missing labels property
categorizeOne(issue) ==
    IF issue.state = "closed" THEN "done"
    ELSE IF ~issue.labels.present THEN "TypeError"
    ELSE IF some(issue.labels.list, isBlockedLabel) THEN "blocked"
    ELSE IF some(issue.labels.list, isActiveLabel) THEN "active"
    ELSE "todo"

Categories == {"active", "todo", "done", "blocked"}

SelectCategory(issues, cat) == SelectSeq(issues, LAMBDA i : categorizeOne(i) = cat)

\* utils.categorizeIssuesByState: the four category lists, in input order;
\* an exception thrown by the callback leaves the function without a value
categorizeIssuesByState(issues) ==
    IF \E i \in 1..Len(issues) : categorizeOne(issues[i]) = "TypeError"
    THEN [threw |-> TRUE,  active |-> <<>>, todo |-> <<>>, done |-> <<>>, blocked |-> <<>>]
    ELSE [threw |-> FALSE,
          active  |-> SelectCategory(issues, "active"),
          todo    |-> SelectCategory(issues, "todo"),
          done    |-> SelectCategory(issues, "done"),
          blocked |-> SelectCategory(issues, "blocked")]

(***************************************************************************)
(* SyncTracker.generateIssueHash                                           *)
(***************************************************************************)
\* comparison of two strings by UTF-16 code units, as Array.prototype.sort
\* does without a comparator: TRUE when s sorts before t or equals it
RECURSIVE codeUnitLeq(_, _)
codeUnitLeq(s, t) ==
    IF s = <<>> THEN TRUE
    ELSE IF t = <<>> THEN FALSE
    ELSE IF charCode(Head(s)) < charCode(Head(t)) THEN TRUE
    ELSE IF charCode(Head(s)) > charCode(Head(t)) THEN FALSE
    ELSE codeUnitLeq(Tail(s), Tail(t))

RECURSIVE insertSorted(_, _)
insertSorted(x, sorted) ==
    IF sorted = <<>> THEN <<x>>
    ELSE IF codeUnitLeq(x, Head(sorted)) THEN <<x>> \o sorted
    ELSE <<Head(sorted)>> \o insertSorted(x, Tail(sorted))

\* Array.prototype.sort() on an array of strings
RECURSIVE sort(_)
sort(names) ==
    IF names = <<>> THEN <<>> ELSE insertSorted(Head(names), sort(Tail(names)))

\* Array.prototype.map
map(list, f(_)) == [i \in 1..Len(list) |-> f(list[i])]

labelName(l) == l.name
assigneeLogin(a) == a.login
imageOriginalUrl(img) == img.originalUrl

\* the per-comment object of relevantData.comments
commentSummary(c) ==
    [id |-> c.id, body |-> c.body, created_at |-> c.created_at,
     updated_at |-> c.updated_at,
     user |-> IF c.user.present /\ c.user.login # "" THEN c.user.login ELSE "Unknown"]

\* relevantData that hashes the label names in the order received
relevantData_unsortedLabels(issue) ==
    [number     |-> issue.number,
     title      |-> issue.title,
     body       |-> issue.body,
     state      |-> issue.state,
     updated_at |-> issue.updated_at,
     labels     |-> IF issue.labels.present
                    THEN [undefined |-> FALSE, v |-> map(issue.labels.list, labelName)]
                    ELSE [undefined |-> TRUE, v |-> <<>>],
     assignees  |-> IF issue.assignees.present
                    THEN [undefined |-> FALSE, v |-> sort(map(issue.assignees.list, assigneeLogin))]
                    ELSE [undefined |-> TRUE, v |-> <<>>],
     milestone  |-> IF issue.milestone.kind = "object"
                    THEN [undefined |-> FALSE, v |-> issue.milestone.title]
                    ELSE [undefined |-> TRUE, v |-> ""],
     comments   |-> IF issue.comments.present
                    THEN map(issue.comments.list, commentSummary)
                    ELSE <<>>,
     imageProcessingResult |->
                    IF issue.imageProcessingResult.present
                    THEN [null |-> FALSE,
                          imageCount |-> Len(issue.imageProcessingResult.images),
                          imageUrls |-> map(issue.imageProcessingResult.images, imageOriginalUrl),
                          analysisCount |-> Len(issue.imageProcessingResult.analyses)]
                    ELSE [null |-> TRUE, imageCount |-> 0, imageUrls |-> <<>>,
                          analysisCount |-> 0]]

\* the object literal relevantData of generateIssueHash.  A property whose
\* value is undefined carries undefined |-> TRUE and an empty value.
relevantData(issue) ==
    [number     |-> issue.number,
     title      |-> issue.title,
     body       |-> issue.body,
     state      |-> issue.state,
     updated_at |-> issue.updated_at,
     labels     |-> IF issue.labels.present
                    THEN [undefined |-> FALSE, v |-> sort(map(issue.labels.list, labelName))]
                    ELSE [undefined |-> TRUE, v |-> <<>>],
     assignees  |-> IF issue.assignees.present
                    THEN [undefined |-> FALSE, v |-> sort(map(issue.assignees.list, assigneeLogin))]
                    ELSE [undefined |-> TRUE, v |-> <<>>],
     milestone  |-> IF issue.milestone.kind = "object"
                    THEN [undefined |-> FALSE, v |-> issue.milestone.title]
                    ELSE [undefined |-> TRUE, v |-> ""],
     comments   |-> IF issue.comments.present
                    THEN map(issue.comments.list, commentSummary)
                    ELSE <<>>,
     imageProcessingResult |->
                    IF issue.imageProcessingResult.present
                    THEN [null |-> FALSE,
                          imageCount |-> Len(issue.imageProcessingResult.images),
                          imageUrls |-> map(issue.imageProcessingResult.images, imageOriginalUrl),
                          analysisCount |-> Len(issue.imageProcessingResult.analyses)]
                    ELSE [null |-> TRUE, imageCount |-> 0, imageUrls |-> <<>>,
                          analysisCount |-> 0]]

\* JSON.stringify with a property allow-list that leaves out updated_at
JSON_stringify_allowList(data) ==
    [number     |-> data.number,
     title      |-> data.title,
     body       |-> data.body,
     state      |-> data.state,
     updated_at |-> "",
     labels     |-> [omitted |-> data.labels.undefined, v |-> data.labels.v],
     assignees  |-> [omitted |-> data.assignees.undefined, v |-> data.assignees.v],
     milestone  |-> [omitted |-> data.milestone.undefined, v |-> data.milestone.v],
     comments   |-> data.comments,
     imageProcessingResult |-> data.imageProcessingResult]

\* JSON.stringify of relevantData: the properties in literal order, a
\* property with an undefined value left out of the text ("omitted"), null
\* written as null.  The text is kept as the structure it spells out.
JSON_stringify(data) ==
    [number     |-> data.number,
     title      |-> data.title,
     body       |-> data.body,
     state      |-> data.state,
     updated_at |-> data.updated_at,
     labels     |-> [omitted |-> data.labels.undefined, v |-> data.labels.v],
     assignees  |-> [omitted |-> data.assignees.undefined, v |-> data.assignees.v],
     milestone  |-> [omitted |-> data.milestone.undefined, v |-> data.milestone.v],
     comments   |-> data.comments,
     imageProcessingResult |-> data.imageProcessingResult]

\* crypto.createHash('sha256').update(content).digest('hex'), taken as
\* injective: the digest stands for the content that was hashed
sha256(content) == [sha256 |-> content]

generateIssueHash(issue) == sha256(JSON_stringify(relevantData(issue)))

(***************************************************************************)
(* Classifier harness: an issue list is chosen, then both classifiers are  *)
(* applied to it.                                                          *)
(***************************************************************************)
ClsLabelOptions ==
    {LabelsAbsent, Labels(<<>>), Labels(<<L_bug>>), Labels(<<L_Blocked>>),
     Labels(<<L_bug, L_blocked>>), Labels(<<L_active, L_Blocked>>),
     Labels(<<L_Blocked, L_InProgress>>), Labels(<<L_InProgress>>),
     Labels(<<L_active>>), Labels(<<L_inactive>>), Labels(<<L_in_progress>>)}

ClsIssuePool ==
    {[BaseIssue(1) EXCEPT !.state = s, !.labels = l] :
        s \in {"open", "closed"}, l \in ClsLabelOptions}

SeqsUpTo(S, n) == UNION {[1..k -> S] : k \in 0..n}

NotClassified ==
    [threw |-> FALSE, active |-> <<>>, todo |-> <<>>, done |-> <<>>, blocked |-> <<>>]

ClsIdle ==
    /\ clsIssues = <<>>
    /\ clsByState = NotClassified
    /\ clsSingle = <<>>
    /\ clsPc = "idle"

ClsInit ==
    /\ clsIssues \in SeqsUpTo(ClsIssuePool, MaxClsIssues)
    /\ clsByState = NotClassified
    /\ clsSingle = <<>>
    /\ clsPc = "input"

\* writeIssuesByState calls categorizeIssuesByState(issues); relocation and
\* the index call categorizeIssue(issue) on each issue
Classify ==
    /\ clsPc = "input"
    /\ clsByState' = categorizeIssuesByState(clsIssues)
    /\ clsSingle' = map(clsIssues, categorizeIssue)
    /\ clsPc' = "classified"
    /\ UNCHANGED <<clsIssues, hashVars, syncVars, cacheVars, keyVars, fmVars, ghVars, retryVars,
                   safeVars, rateVars, parVars>>

HashIdle ==
    /\ hashA = BaseIssue(1)
    /\ hashB = BaseIssue(1)
    /\ hashOfA = <<>>
    /\ hashOfB = <<>>
    /\ hashEdits = 0
    /\ hashPc = "idle"

ClsNext == Classify


(***************************************************************************)
(* Classification claims                                                   *)
(***************************************************************************)
\* the label names of an issue, none when the label set is absent
LabelNameSet(issue) ==
    IF issue.labels.present
    THEN {issue.labels.list[i].name : i \in 1..Len(issue.labels.list)}
    ELSE {}

HasLabelContaining(issue, sub) ==
    \E n \in LabelNameSet(issue) : includes(toLowerCase(n), sub)

\* the category the stated first-match order gives
FirstMatchCategory(issue) ==
    CASE issue.state = "closed" -> "done"
      [] issue.state # "closed" /\ HasLabelContaining(issue, S_blocked) -> "blocked"
      [] issue.state # "closed" /\ ~HasLabelContaining(issue, S_blocked)
           /\ (HasLabelContaining(issue, S_in_progress) \/ HasLabelContaining(issue, S_active))
           -> "active"
      [] OTHER -> "todo"

\* the category lists of a categorizeIssuesByState result an issue is in
ListsHolding(result, issue) ==
    {c \in Categories : \E i \in 1..Len(result[c]) : result[c][i] = issue}

\* C6: classification follows the fixed first-match order closed -> done,
\* else a label containing "blocked" (any case) -> blocked, else a label
\* containing "in progress" or "active" -> active, else todo.
\* categorizeIssue gives that category for every issue, and whenever
\* categorizeIssuesByState returns its lists, every issue is in the list of
\* that category and in no other; closed with a blocked label is done, open
\* with a blocked and an active label is blocked.
C6_FirstMatchOrder ==
    clsPc = "classified" =>
        \A i \in 1..Len(clsIssues) :
            LET issue == clsIssues[i] IN
            /\ clsSingle[i] = FirstMatchCategory(issue)
            /\ ~clsByState.threw =>
                   ListsHolding(clsByState, issue) = {FirstMatchCategory(issue)}
            /\ (issue.state = "closed" /\ HasLabelContaining(issue, S_blocked))
                   => clsSingle[i] = "done"
            /\ (issue.state = "open" /\ HasLabelContaining(issue, S_blocked)
                    /\ HasLabelContaining(issue, S_active))
                   => clsSingle[i] = "blocked"

\* C6 witness: a classified list holding a closed issue with a blocked
\* label and an open issue with both a blocked and an active label
C6_Witness ==
    /\ clsPc = "classified"
    /\ ~clsByState.threw
    /\ \E i \in 1..Len(clsIssues) :
           /\ clsIssues[i].state = "closed"
           /\ HasLabelContaining(clsIssues[i], S_blocked)
           /\ ListsHolding(clsByState, clsIssues[i]) = {"done"}
    /\ \E i \in 1..Len(clsIssues) :
           /\ clsIssues[i].state = "open"
           /\ HasLabelContaining(clsIssues[i], S_blocked)
           /\ HasLabelContaining(clsIssues[i], S_active)
           /\ ListsHolding(clsByState, clsIssues[i]) = {"blocked"}

\* C7: classification is total: for every issue list, also one holding an
\* issue without a label set, categorizeIssuesByState (which chooses the
\* directory an artifact is written to) does not fail and puts every issue
\* in exactly one of the four category lists.
C7_ClassifierTotal ==
    clsPc = "classified" =>
        /\ ~clsByState.threw
        /\ \A i \in 1..Len(clsIssues) :
               Cardinality(ListsHolding(clsByState, clsIssues[i])) = 1

(***************************************************************************)
(* Fingerprint harness: an issue is chosen, a copy of it is edited field   *)
(* by field, then both are hashed.                                         *)
(***************************************************************************)
C_1 == Comment(1, "looks good", "t1", User("al"))

HashLabelOptions ==
    {LabelsAbsent, Labels(<<>>), Labels(<<L_bug, L_active>>),
     Labels(<<L_bug, L_Blocked, L_active>>), Labels(<<L_active, L_bug, L_Blocked>>)}
HashAssigneeOptions ==
    {AssigneesAbsent, Assignees(<<>>), Assignees(<<U_bo, U_al>>),
     Assignees(<<U_al, U_bo>>), Assignees(<<U_bob, U_bo>>)}
HashMilestoneOptions ==
    {MilestoneUndefined, MilestoneNull, Milestone("v1"), Milestone("v2")}
HashCommentOptions ==
    {CommentsAbsent, Comments(<<>>), Comments(<<C_1>>),
     Comments(<<[C_1 EXCEPT !.body = "edited", !.updated_at = "t2"]>>),
     Comments(<<[C_1 EXCEPT !.user = UserAbsent]>>),
     Comments(<<C_1, Comment(2, "done", "t2", User("bo"))>>)}
HashImageOptions ==
    {ImagesAbsent, Images(<<>>, <<>>), Images(<<"u1">>, <<>>), Images(<<"u1">>, <<"a1">>)}

HashBaseIssues ==
    {[BaseIssue(1) EXCEPT !.labels = l, !.assignees = a, !.milestone = m, !.comments = c] :
        l \in {Labels(<<>>), Labels(<<L_bug, L_Blocked, L_active>>)},
        a \in {Assignees(<<>>), Assignees(<<U_bo, U_al>>)},
        m \in {MilestoneUndefined, Milestone("v1")},
        c \in {CommentsAbsent, Comments(<<C_1>>)}}

\* the issues one edit of one field away
EditsOf(issue) ==
    {[issue EXCEPT !.number = v] : v \in {1, 2}}
    \cup {[issue EXCEPT !.title = v] : v \in {"Fix login", "Fix logout"}}
    \cup {[issue EXCEPT !.body = v] : v \in {Body("steps"), Body(""), BodyNull}}
    \cup {[issue EXCEPT !.state = v] : v \in {"open", "closed"}}
    \cup {[issue EXCEPT !.updated_at = v] : v \in {"t1", "t2"}}
    \cup {[issue EXCEPT !.labels = v] : v \in HashLabelOptions}
    \cup {[issue EXCEPT !.assignees = v] : v \in HashAssigneeOptions}
    \cup {[issue EXCEPT !.milestone = v] : v \in HashMilestoneOptions}
    \cup {[issue EXCEPT !.comments = v] : v \in HashCommentOptions}
    \cup {[issue EXCEPT !.imageProcessingResult = v] : v \in HashImageOptions}

HashInit ==
    /\ hashA \in HashBaseIssues
    /\ hashB = hashA
    /\ hashOfA = <<>>
    /\ hashOfB = <<>>
    /\ hashEdits = 0
    /\ hashPc = "edit"

\* the remote item changes in one field
EditIssue ==
    /\ hashPc = "edit"
    /\ hashEdits < MaxHashEdits
    /\ \E e \in EditsOf(hashB) \ {hashB} : hashB' = e
    /\ hashEdits' = hashEdits + 1
    /\ UNCHANGED <<hashA, hashOfA, hashOfB, hashPc, clsVars, syncVars, cacheVars, keyVars, fmVars, ghVars, retryVars,
                   safeVars, rateVars, parVars>>

\* generateIssueHash is applied to both issues
HashIssues ==
    /\ hashPc = "edit"
    /\ hashOfA' = <<generateIssueHash(hashA)>>
    /\ hashOfB' = <<generateIssueHash(hashB)>>
    /\ hashPc' = "hashed"
    /\ UNCHANGED <<hashA, hashB, hashEdits, clsVars, syncVars, cacheVars, keyVars, fmVars, ghVars, retryVars,
                   safeVars, rateVars, parVars>>

HashNext == EditIssue \/ HashIssues


(***************************************************************************)
(* Fingerprint claims                                                      *)
(***************************************************************************)
Range(s) == {s[i] : i \in 1..Len(s)}

\* the multiset of the elements of a list
BagOf(s) == [x \in Range(s) |-> Cardinality({i \in 1..Len(s) : s[i] = x})]

\* the two issues are equal but for the order of their labels and assignees
SameUpToOrder(a, b) ==
    /\ [a EXCEPT !.labels = LabelsAbsent, !.assignees = AssigneesAbsent]
         = [b EXCEPT !.labels = LabelsAbsent, !.assignees = AssigneesAbsent]
    /\ a.labels.present = b.labels.present
    /\ BagOf(a.labels.list) = BagOf(b.labels.list)
    /\ a.assignees.present = b.assignees.present
    /\ BagOf(a.assignees.list) = BagOf(b.assignees.list)

\* C4: two issues that differ only in the array order of their labels or
\* assignees have the same generateIssueHash.
C4_HashOrderIndependent ==
    (hashPc = "hashed" /\ SameUpToOrder(hashA, hashB)) => hashOfA = hashOfB

\* C4 witness: two hashed issues whose label arrays and assignee arrays are
\* the same names in different orders
C4_Witness ==
    /\ hashPc = "hashed"
    /\ SameUpToOrder(hashA, hashB)
    /\ Len(hashA.labels.list) >= 2
    /\ hashA.labels.list # hashB.labels.list
    /\ hashA.assignees.list # hashB.assignees.list
    /\ hashOfA = hashOfB

\* the canonical projection of an issue: identifier, title, body, state,
\* last-modified timestamp, the label names and the assignee names without
\* their order, the milestone title if there is one, and the summary of the
\* comments and of the attachments
CanonicalProjection(issue) ==
    [identifier |-> issue.number,
     title |-> issue.title,
     body |-> issue.body,
     state |-> issue.state,
     lastModified |-> issue.updated_at,
     labels |-> [present |-> issue.labels.present,
                 names |-> BagOf([i \in 1..Len(issue.labels.list) |-> issue.labels.list[i].name])],
     assignees |-> [present |-> issue.assignees.present,
                    names |-> BagOf([i \in 1..Len(issue.assignees.list) |->
                                        issue.assignees.list[i].login])],
     milestoneTitle |-> IF issue.milestone.kind = "object"
                        THEN <<issue.milestone.title>> ELSE <<>>,
     comments |-> [count |-> Len(issue.comments.list),
                   entries |-> [i \in 1..Len(issue.comments.list) |->
                       LET c == issue.comments.list[i] IN
                       <<c.id, c.body, c.created_at, c.updated_at,
                         IF c.user.present THEN c.user.login ELSE "Unknown">>]],
     attachments |-> IF issue.imageProcessingResult.present
                     THEN <<Len(issue.imageProcessingResult.images),
                            [i \in 1..Len(issue.imageProcessingResult.images) |->
                                issue.imageProcessingResult.images[i].originalUrl],
                            Len(issue.imageProcessingResult.analyses)>>
                     ELSE <<>>]

\* the two issues are equal but that one has no milestone property and the
\* other a null milestone, or one has no comments property and the other an
\* empty comment list
AbsentVersusSentinel(a, b) ==
    /\ [a EXCEPT !.milestone = MilestoneNull, !.comments = CommentsAbsent]
         = [b EXCEPT !.milestone = MilestoneNull, !.comments = CommentsAbsent]
    /\ a.milestone.kind # "object" /\ b.milestone.kind # "object"
    /\ Len(a.comments.list) = 0 /\ Len(b.comments.list) = 0

\* C5: two issues have the same generateIssueHash exactly when their
\* canonical projections are equal (the hash taken as injective), and an
\* absent milestone or comment list hashes as a null milestone or an empty
\* comment list does.
C5_HashFollowsProjection ==
    hashPc = "hashed" =>
        /\ (CanonicalProjection(hashA) = CanonicalProjection(hashB)) <=> (hashOfA = hashOfB)
        /\ AbsentVersusSentinel(hashA, hashB) => hashOfA = hashOfB

\* C5 witness: an issue without a milestone property and without comments
\* hashed next to its copy with a null milestone and an empty comment list
C5_Witness ==
    /\ hashPc = "hashed"
    /\ AbsentVersusSentinel(hashA, hashB)
    /\ hashA.milestone.kind # hashB.milestone.kind
    /\ hashA.comments.present # hashB.comments.present
    /\ hashOfA = hashOfB

(***************************************************************************)
(* SyncTracker                                                             *)
(***************************************************************************)
digitChar(d) ==
    CASE d = 0 -> "0" [] d = 1 -> "1" [] d = 2 -> "2" [] d = 3 -> "3" [] d = 4 -> "4"
      [] d = 5 -> "5" [] d = 6 -> "6" [] d = 7 -> "7" [] d = 8 -> "8" [] d = 9 -> "9"

\* Number.prototype.toString() of a non-negative integer
RECURSIVE toString(_)
toString(n) ==
    IF n < 10 THEN <<digitChar(n)>> ELSE toString(n \div 10) \o <<digitChar(n % 10)>>

\* parseInt(s) of a string of decimal digits
RECURSIVE parseInt(_)
parseInt(s) ==
    IF Len(s) = 1 THEN charCode(s[1]) - 48
    ELSE 10 * parseInt(SubSeq(s, 1, Len(s) - 1)) + (charCode(s[Len(s)]) - 48)

\* the empty ledger of loadSyncData and reset
EmptySyncData == [lastSync |-> <<>>, issues |-> [k \in {} |-> <<>>]]

hasEntry(data, issueKey) == issueKey \in DOMAIN data.issues

\* needsUpdate with the hash comparison inverted
needsUpdate_inverted(data, issue) ==
    LET issueKey == toString(issue.number)
        currentHash == generateIssueHash(issue)
    IN  IF ~hasEntry(data, issueKey) THEN [needed |-> TRUE, reason |-> "new"]
        ELSE IF data.issues[issueKey].hash = currentHash
             THEN [needed |-> TRUE, reason |-> "updated"]
             ELSE [needed |-> FALSE, reason |-> "unchanged"]

\* SyncTracker.needsUpdate
needsUpdate(data, issue) ==
    LET issueKey == toString(issue.number)
        currentHash == generateIssueHash(issue)
    IN  IF ~hasEntry(data, issueKey) THEN [needed |-> TRUE, reason |-> "new"]
        ELSE IF data.issues[issueKey].hash # currentHash
             THEN [needed |-> TRUE, reason |-> "updated"]
             ELSE [needed |-> FALSE, reason |-> "unchanged"]

\* markIssueProcessed that keeps the hash of an entry it overwrites
markIssueProcessed_keepsHash(data, issue, filePath, time) ==
    LET issueKey == toString(issue.number)
        entry == [hash |-> IF hasEntry(data, issueKey) THEN data.issues[issueKey].hash
                           ELSE generateIssueHash(issue),
                  filePath |-> filePath,
                  lastProcessed |-> time, state |-> issue.state]
    IN  [data EXCEPT !.issues =
            [k \in DOMAIN data.issues \cup {issueKey} |->
                IF k = issueKey THEN entry ELSE data.issues[k]]]

\* SyncTracker.markIssueProcessed: the ledger after the call
markIssueProcessed(data, issue, filePath, time) ==
    LET issueKey == toString(issue.number)
        entry == [hash |-> generateIssueHash(issue), filePath |-> filePath,
                  lastProcessed |-> time, state |-> issue.state]
    IN  [data EXCEPT !.issues =
            [k \in DOMAIN data.issues \cup {issueKey} |->
                IF k = issueKey THEN entry ELSE data.issues[k]]]

\* Object.entries order of the ledger keys: integer keys ascending
RECURSIVE entriesOrder(_)
entriesOrder(keys) ==
    IF keys = {} THEN <<>>
    ELSE LET first == CHOOSE k \in keys : \A o \in keys : parseInt(k) <= parseInt(o)
         IN  <<first>> \o entriesOrder(keys \ {first})

\* getChangedIssues whose currentIssueNumbers holds the numbers, not their
\* strings, so that no ledger key is ever found in it
getChangedIssues_numberSet(data, list) ==
    LET gone == entriesOrder(DOMAIN data.issues)
    IN  [new       |-> SelectSeq(list, LAMBDA issue : needsUpdate(data, issue).reason = "new"),
         updated   |-> SelectSeq(list, LAMBDA issue : needsUpdate(data, issue).reason = "updated"),
         unchanged |-> SelectSeq(list, LAMBDA issue :
                           needsUpdate(data, issue).reason \notin {"new", "updated"}),
         deleted   |-> [i \in 1..Len(gone) |->
                           [number |-> parseInt(gone[i]),
                            filePath |-> data.issues[gone[i]].filePath,
                            lastState |-> data.issues[gone[i]].state]]]

\* SyncTracker.getChangedIssues
getChangedIssues(data, list) ==
    LET currentIssueNumbers == {toString(list[i].number) : i \in 1..Len(list)}
        gone == SelectSeq(entriesOrder(DOMAIN data.issues),
                          LAMBDA k : k \notin currentIssueNumbers)
    IN  [new       |-> SelectSeq(list, LAMBDA issue : needsUpdate(data, issue).reason = "new"),
         updated   |-> SelectSeq(list, LAMBDA issue : needsUpdate(data, issue).reason = "updated"),
         unchanged |-> SelectSeq(list, LAMBDA issue :
                           needsUpdate(data, issue).reason \notin {"new", "updated"}),
         deleted   |-> [i \in 1..Len(gone) |->
                           [number |-> parseInt(gone[i]),
                            filePath |-> data.issues[gone[i]].filePath,
                            lastState |-> data.issues[gone[i]].state]]]

\* the loop body of cleanupDeletedIssues that deletes the ledger entry
\* also when unlinkSync throws
cleanupDeleted_forgetsAlways(data, disk, deleted, failing) ==
    LET key == toString(deleted.number)
        throws == deleted.filePath \in disk /\ deleted.filePath \in failing
    IN  [data |-> [data EXCEPT !.issues =
                      [k \in DOMAIN data.issues \ {key} |-> data.issues[k]]],
         disk |-> IF throws THEN disk ELSE disk \ {deleted.filePath}]

\* the loop body of SyncTracker.cleanupDeletedIssues for one deleted
\* issue: an existing file is unlinked and the ledger entry deleted; when
\* unlinkSync throws (the paths in failing) the catch leaves file and
\* entry in place
cleanupDeleted(data, disk, deleted, failing) ==
    LET key == toString(deleted.number)
        throws == deleted.filePath \in disk /\ deleted.filePath \in failing
    IN  IF throws THEN [data |-> data, disk |-> disk]
        ELSE [data |-> [data EXCEPT !.issues =
                           [k \in DOMAIN data.issues \ {key} |-> data.issues[k]]],
              disk |-> disk \ {deleted.filePath}]

\* SyncTracker.cleanupDeletedIssues, entry by entry
RECURSIVE cleanupDeletedIssues(_, _, _, _)
cleanupDeletedIssues(data, disk, deletedIssues, failing) ==
    IF deletedIssues = <<>> THEN [data |-> data, disk |-> disk]
    ELSE LET after == cleanupDeleted(data, disk, Head(deletedIssues), failing)
         IN  cleanupDeletedIssues(after.data, after.disk, Tail(deletedIssues), failing)

(***************************************************************************)
(* SyncTracker runs: the caller fetches an issue list, computes the change *)
(* set, writes artifacts, marks fetchedIssues processed and cleans up.            *)
(***************************************************************************)
IssueNumbers == {1, 12}

\* per number: an issue, the same issue with its labels in another order,
\* and the issue after it was closed upstream
SyncIssuePool ==
    UNION {{[BaseIssue(n) EXCEPT !.labels = Labels(<<L_bug, L_active>>)],
            [BaseIssue(n) EXCEPT !.labels = Labels(<<L_active, L_bug>>)],
            [BaseIssue(n) EXCEPT !.labels = Labels(<<L_bug, L_active>>),
                                 !.state = "closed", !.updated_at = "t2"]} :
           n \in IssueNumbers}

\* fetched lists: identifiers are unique within a collection
FetchedLists ==
    {l \in SeqsUpTo(SyncIssuePool, Cardinality(IssueNumbers)) :
        \A i, j \in 1..Len(l) : i # j => l[i].number # l[j].number}

FilePaths == {"out/todo/issue.md", "out/done/issue.md"}

SyncIdle ==
    /\ syncData = EmptySyncData
    /\ fetchedIssues = <<>>
    /\ changes = <<>>
    /\ files = {}
    /\ now = 0
    /\ diffed = FALSE
    /\ marked = {}
    /\ rediffed = FALSE

\* new SyncTracker(repositoryConfig) with no persisted ledger
SyncInit == SyncIdle

\* list l is list m without its element at index i
RemovedAt(m, i) == [j \in 1..(Len(m) - 1) |-> IF j < i THEN m[j] ELSE m[j + 1]]

\* what one upstream event makes of the list: an issue is created, is
\* deleted or transferred away, or is edited
UpstreamChanges(l) ==
    {m \in FetchedLists :
        \/ \E x \in SyncIssuePool : m = Append(l, x)
        \/ \E i \in 1..Len(l) : m = RemovedAt(l, i)
        \/ /\ Len(m) = Len(l)
           /\ Cardinality({i \in 1..Len(l) : m[i] # l[i]}) = 1
           /\ \A i \in 1..Len(l) : m[i].number = l[i].number}

\* the caller fetches the issue list of the next pass, one upstream event
\* after the list it fetched before
Fetch ==
    /\ \E l \in UpstreamChanges(fetchedIssues) : fetchedIssues' = l
    /\ changes' = <<>>
    /\ diffed' = FALSE /\ marked' = {} /\ rediffed' = FALSE
    /\ UNCHANGED <<syncData, files, now, clsVars, hashVars, cacheVars, keyVars, fmVars, ghVars, retryVars,
                   safeVars, rateVars, parVars>>

\* changes = syncTracker.getChangedIssues(fetchedIssues)
GetChangedIssues ==
    /\ changes' = <<getChangedIssues(syncData, fetchedIssues)>>
    /\ rediffed' = (diffed /\ marked = 1..Len(fetchedIssues))
    /\ diffed' = TRUE /\ marked' = {}
    /\ UNCHANGED <<syncData, fetchedIssues, files, now, clsVars, hashVars, cacheVars, keyVars, fmVars, ghVars, retryVars,
                   safeVars, rateVars, parVars>>

\* FileManager.writeIssueFile: safeWriteFile(filePath, content)
WriteIssueFile ==
    /\ \E p \in FilePaths \ files : files' = files \cup {p}
    /\ UNCHANGED <<syncData, fetchedIssues, changes, now, diffed, marked, rediffed, clsVars, hashVars, cacheVars, keyVars, fmVars, ghVars, retryVars,
                   safeVars, rateVars, parVars>>

\* syncTracker.markIssueProcessed(issue, filePath) for a fetched issue
MarkIssueProcessed ==
    /\ \E i \in 1..Len(fetchedIssues), p \in FilePaths :
          /\ syncData' = markIssueProcessed(syncData, fetchedIssues[i], p, now)
          /\ marked' = IF diffed THEN marked \cup {i} ELSE marked
    /\ changes' = <<>>
    /\ rediffed' = FALSE
    /\ UNCHANGED <<fetchedIssues, files, now, diffed, clsVars, hashVars, cacheVars, keyVars, fmVars, ghVars, retryVars,
                   safeVars, rateVars, parVars>>

\* syncTracker.cleanupDeletedIssues(changes.deleted), as performIncrementalSync
\* calls it right after getChangedIssues
CleanupDeletedIssues ==
    /\ changes # <<>>
    /\ Len(changes[1].deleted) > 0
    /\ \E failing \in SUBSET files :
          LET after == cleanupDeletedIssues(syncData, files, changes[1].deleted, failing)
          IN  /\ syncData' = after.data
              /\ files' = after.disk
    /\ changes' = <<>>
    /\ diffed' = FALSE /\ marked' = {} /\ rediffed' = FALSE
    /\ UNCHANGED <<fetchedIssues, now, clsVars, hashVars, cacheVars, keyVars, fmVars, ghVars, retryVars,
                   safeVars, rateVars, parVars>>

\* SyncTracker.reset
Reset ==
    /\ syncData # EmptySyncData
    /\ syncData' = EmptySyncData
    /\ changes' = <<>>
    /\ diffed' = FALSE /\ marked' = {} /\ rediffed' = FALSE
    /\ UNCHANGED <<fetchedIssues, files, now, clsVars, hashVars, cacheVars, keyVars, fmVars, ghVars, retryVars,
                   safeVars, rateVars, parVars>>

\* time passes
SyncTick ==
    /\ now < MaxSyncTime
    /\ now' = now + 1
    /\ UNCHANGED <<syncData, fetchedIssues, changes, files, diffed, marked, rediffed, clsVars, hashVars, cacheVars, keyVars, fmVars, ghVars, retryVars,
                   safeVars, rateVars, parVars>>

SyncNext ==
    \/ Fetch
    \/ GetChangedIssues
    \/ WriteIssueFile
    \/ MarkIssueProcessed
    \/ CleanupDeletedIssues
    \/ Reset
    \/ SyncTick

(***************************************************************************)
(* Change-set claims                                                       *)
(***************************************************************************)
\* the identifiers in a list of issues or of deleted entries
Numbers(list) == {list[i].number : i \in 1..Len(list)}

\* how many elements of the list carry the identifier
Occurrences(list, n) == Cardinality({i \in 1..Len(list) : list[i].number = n})

\* the identifiers that have a ledger entry
LedgerNumbers == {parseInt(k) : k \in DOMAIN syncData.issues}

\* the ledger entry of an identifier
LedgerEntry(n) ==
    syncData.issues[CHOOSE k \in DOMAIN syncData.issues : parseInt(k) = n]

\* C1: with unique identifiers in the fetched list, getChangedIssues puts
\* every fetched identifier in exactly one of new, updated and unchanged,
\* every ledger identifier that was not fetched in exactly one deleted
\* entry, and no identifier in two partitions.
C1_PartitionComplete ==
    changes # <<>> =>
        LET r == changes[1] IN
        /\ \A n \in Numbers(fetchedIssues) :
               /\ Occurrences(r.new \o r.updated \o r.unchanged, n) = 1
               /\ Occurrences(r.deleted, n) = 0
        /\ \A n \in LedgerNumbers \ Numbers(fetchedIssues) :
               /\ Occurrences(r.deleted, n) = 1
               /\ Occurrences(r.new \o r.updated \o r.unchanged, n) = 0
        /\ Numbers(r.new) \cup Numbers(r.updated) \cup Numbers(r.unchanged)
               \cup Numbers(r.deleted)
             = Numbers(fetchedIssues) \cup LedgerNumbers

\* C1 witness: a change set that holds a deleted entry next to a fetched
\* issue that has a ledger entry
C1_Witness ==
    /\ changes # <<>>
    /\ Len(changes[1].deleted) >= 1
    /\ Len(changes[1].updated) + Len(changes[1].unchanged) >= 1

\* C2: a fetched issue is new exactly when its identifier has no ledger
\* entry, updated exactly when the entry's stored hash differs from the
\* issue's current hash, unchanged exactly when the two hashes are equal;
\* a ledger identifier is deleted exactly when it was not fetched.
C2_ClassificationRule ==
    changes # <<>> =>
        LET r == changes[1]
            In(list, issue) == \E i \in 1..Len(list) : list[i] = issue
        IN
        /\ \A i \in 1..Len(fetchedIssues) :
               LET issue == fetchedIssues[i]
                   known == issue.number \in LedgerNumbers
               IN
               /\ In(r.new, issue) <=> ~known
               /\ In(r.updated, issue) <=>
                      (known /\ LedgerEntry(issue.number).hash # generateIssueHash(issue))
               /\ In(r.unchanged, issue) <=>
                      (known /\ LedgerEntry(issue.number).hash = generateIssueHash(issue))
        /\ \A n \in LedgerNumbers :
               (n \in Numbers(r.deleted)) <=> (n \notin Numbers(fetchedIssues))

\* C2 witness: both fetched issues have a ledger entry, one with the hash
\* stored for it and one with another hash
C2_Witness ==
    /\ changes # <<>>
    /\ Len(changes[1].updated) = 1
    /\ Len(changes[1].unchanged) = 1

\* C3 as stated: getChangedIssues, then markIssueProcessed for all items,
\* then getChangedIssues on the same input yields new = [], updated = [],
\* unchanged = all items and deleted = [].
C3_IdempotenceAsStated ==
    rediffed =>
        /\ changes[1].new = <<>>
        /\ changes[1].updated = <<>>
        /\ changes[1].unchanged = fetchedIssues
        /\ changes[1].deleted = <<>>

\* C3 amended: getChangedIssues, then markIssueProcessed for all items, then
\* getChangedIssues on the same input yields new = [], updated = [],
\* unchanged = all items, and deleted = the ledger identifiers that are not
\* in the input, which is [] when the ledger has no such identifier.
C3_Idempotence ==
    rediffed =>
        /\ changes[1].new = <<>>
        /\ changes[1].updated = <<>>
        /\ changes[1].unchanged = fetchedIssues
        /\ Numbers(changes[1].deleted) = LedgerNumbers \ Numbers(fetchedIssues)
        /\ Len(changes[1].deleted) = Cardinality(LedgerNumbers \ Numbers(fetchedIssues))

\* C3 witness: the second run, all items marked since the first, with a
\* ledger identifier that is not in the input
C3_Witness ==
    /\ rediffed
    /\ Len(fetchedIssues) >= 1
    /\ changes[1].unchanged = fetchedIssues
    /\ Len(changes[1].deleted) >= 1

(***************************************************************************)
(* CacheManager: one JSON file per entry in cacheDir                       *)
(***************************************************************************)
CacheKeys == {"issues_a", "issues_b", "comments_a"}
CacheData == {"response1", "response2"}
TTLs == {1, defaultTTL}

NoFiles == [k \in {} |-> <<>>]

\* the directory without the file of a key
withoutFile(dir, key) == [k \in DOMAIN dir \ {key} |-> dir[k]]

\* the directory without the files of a set of keys
withoutFiles(dir, keys) == [k \in DOMAIN dir \ keys |-> dir[k]]

\* cacheEntry whose expires leaves out the ttl
cacheEntry_noTtl(data, ttl, t) ==
    [data |-> data, timestamp |-> t, ttl |-> ttl, expires |-> t,
     mtime |-> t, corrupt |-> FALSE]

\* the file set(key, data, ttl) writes at time t: the cacheEntry object as
\* JSON, and the modification time the file system gives the file
cacheEntry(data, ttl, t) ==
    [data |-> data, timestamp |-> t, ttl |-> ttl, expires |-> t + ttl,
     mtime |-> t, corrupt |-> FALSE]

\* a file whose content JSON.parse rejects; only its mtime can be read
unparseable(mtime) ==
    [data |-> "", timestamp |-> 0, ttl |-> 0, expires |-> 0,
     mtime |-> mtime, corrupt |-> TRUE]

\* the key sets enforceMaxCacheSize may unlink: the files beyond the first
\* maxCacheSize in the order newest mtime first; the sort keeps files of
\* equal mtime in readdirSync order, which is any order
evictable(dir) ==
    IF Cardinality(DOMAIN dir) <= maxCacheSize THEN {{}}
    ELSE {D \in SUBSET DOMAIN dir :
            /\ Cardinality(D) = Cardinality(DOMAIN dir) - maxCacheSize
            /\ \A d \in D, r \in DOMAIN dir \ D : dir[d].mtime <= dir[r].mtime}

\* CacheManager.enforceMaxCacheSize: the directories it may leave
enforceMaxCacheSize(dir) == {withoutFiles(dir, D) : D \in evictable(dir)}

\* fs.writeFileSync that leaves an existing file as it is
writeFileSync_keepsExisting(dir, key, file) ==
    [k \in DOMAIN dir \cup {key} |-> IF k \in DOMAIN dir THEN dir[k] ELSE file]

\* fs.writeFileSync(cachePath, text): the file is created or replaced
writeFileSync(dir, key, file) ==
    [k \in DOMAIN dir \cup {key} |-> IF k = key THEN file ELSE dir[k]]

\* CacheManager.set: the outcomes it may have.  writable tells whether
\* writeFileSync succeeds; when it throws, the catch warns and returns, so
\* enforceMaxCacheSize is not reached.  set itself never throws.
set(dir, key, data, ttl, t, writable) ==
    IF writable
    THEN {[dir |-> d, threw |-> FALSE, warned |-> FALSE] :
             d \in enforceMaxCacheSize(writeFileSync(dir, key, cacheEntry(data, ttl, t)))}
    ELSE {[dir |-> dir, threw |-> FALSE, warned |-> TRUE]}

\* the expiry test of get and cleanupExpiredEntries
isExpired(entry, t) == t > entry.expires

\* get that returns null for an expired entry without deleting it
get_keepsExpired(dir, key, t) ==
    IF key \notin DOMAIN dir THEN [returned |-> <<>>, dir |-> dir]
    ELSE IF dir[key].corrupt THEN [returned |-> <<>>, dir |-> dir]
    ELSE IF isExpired(dir[key], t) THEN [returned |-> <<>>, dir |-> dir]
    ELSE [returned |-> <<dir[key].data>>, dir |-> dir]

\* CacheManager.get: returned is <<data>> for a hit and <<>> for null; an
\* expired entry is deleted, an entry that does not parse makes JSON.parse
\* throw into the catch, which returns null
get(dir, key, t) ==
    IF key \notin DOMAIN dir THEN [returned |-> <<>>, dir |-> dir]
    ELSE IF dir[key].corrupt THEN [returned |-> <<>>, dir |-> dir]
    ELSE IF isExpired(dir[key], t) THEN [returned |-> <<>>, dir |-> withoutFile(dir, key)]
    ELSE [returned |-> <<dir[key].data>>, dir |-> dir]

\* cleanupExpiredEntries that leaves the files it cannot parse
cleanupExpiredEntries_keepsCorrupt(dir, t) ==
    withoutFiles(dir, {k \in DOMAIN dir : ~dir[k].corrupt /\ isExpired(dir[k], t)})

\* CacheManager.cleanupExpiredEntries: expired and unparseable files go
cleanupExpiredEntries(dir, t) ==
    withoutFiles(dir, {k \in DOMAIN dir : dir[k].corrupt \/ isExpired(dir[k], t)})

\* the write-order history without a set of keys
orderWithout(order, keys) == SelectSeq(order, LAMBDA k : k \notin keys)

CacheIdle ==
    /\ cacheFiles = NoFiles
    /\ clock = 0
    /\ lastGet = <<>>
    /\ writeOrder = <<>>
    /\ lastSet = <<>>
    /\ lastCleanup = <<>>

\* new CacheManager(options) on a fresh cacheDir: ensureDirectoryExists,
\* then cleanupExpiredEntries on the empty directory
CacheInit == CacheIdle

\* cacheManager.set(key, data, ttl) when the cache directory is writable
SetWritten ==
    /\ \E key \in CacheKeys, data \in CacheData, ttl \in TTLs :
          LET written == writeFileSync(cacheFiles, key, cacheEntry(data, ttl, clock))
              order == Append(orderWithout(writeOrder, {key}), key)
          IN  \E outcome \in set(cacheFiles, key, data, ttl, clock, TRUE) :
                 /\ cacheFiles' = outcome.dir
                 /\ writeOrder' = orderWithout(order, DOMAIN written \ DOMAIN outcome.dir)
                 /\ lastSet' = <<[key |-> key, data |-> data, ttl |-> ttl, at |-> clock,
                                  failed |-> FALSE, threw |-> outcome.threw, order |-> order,
                                  evicted |-> DOMAIN written \ DOMAIN outcome.dir]>>
    /\ lastGet' = <<>>
    /\ lastCleanup' = <<>>
    /\ UNCHANGED <<clock, clsVars, hashVars, syncVars, keyVars, fmVars, ghVars, retryVars,
                   safeVars, rateVars, parVars>>

\* cacheManager.set(key, data), ttl = this.defaultTTL, when the cache
\* directory is not writable
SetFailed ==
    /\ \E key \in CacheKeys, data \in CacheData :
          \E outcome \in set(cacheFiles, key, data, defaultTTL, clock, FALSE) :
             /\ cacheFiles' = outcome.dir
             /\ writeOrder' = orderWithout(writeOrder, DOMAIN cacheFiles \ DOMAIN outcome.dir)
             /\ lastSet' = <<[failed |-> TRUE, threw |-> outcome.threw,
                              before |-> cacheFiles]>>
    /\ lastGet' = <<>>
    /\ lastCleanup' = <<>>
    /\ UNCHANGED <<clock, clsVars, hashVars, syncVars, keyVars, fmVars, ghVars, retryVars,
                   safeVars, rateVars, parVars>>

\* cacheManager.get(key)
Get ==
    /\ \E key \in CacheKeys :
          LET g == get(cacheFiles, key, clock) IN
          /\ cacheFiles' = g.dir
          /\ writeOrder' = orderWithout(writeOrder, DOMAIN cacheFiles \ DOMAIN g.dir)
          /\ lastGet' = <<[key |-> key, at |-> clock,
                           before |-> IF key \in DOMAIN cacheFiles
                                      THEN <<cacheFiles[key]>> ELSE <<>>,
                           returned |-> g.returned]>>
    /\ lastSet' = <<>>
    /\ lastCleanup' = <<>>
    /\ UNCHANGED <<clock, clsVars, hashVars, syncVars, keyVars, fmVars, ghVars, retryVars,
                   safeVars, rateVars, parVars>>

\* cacheManager.delete(key)
Delete ==
    /\ \E key \in DOMAIN cacheFiles :
          /\ cacheFiles' = withoutFile(cacheFiles, key)
          /\ writeOrder' = orderWithout(writeOrder, {key})
    /\ lastGet' = <<>>
    /\ lastSet' = <<>>
    /\ lastCleanup' = <<>>
    /\ UNCHANGED <<clock, clsVars, hashVars, syncVars, keyVars, fmVars, ghVars, retryVars,
                   safeVars, rateVars, parVars>>

\* cacheManager.clear()
Clear ==
    /\ cacheFiles # NoFiles
    /\ cacheFiles' = NoFiles
    /\ writeOrder' = <<>>
    /\ lastGet' = <<>>
    /\ lastSet' = <<>>
    /\ lastCleanup' = <<>>
    /\ UNCHANGED <<clock, clsVars, hashVars, syncVars, keyVars, fmVars, ghVars, retryVars,
                   safeVars, rateVars, parVars>>

\* a later new CacheManager(options) on the same cacheDir: the constructor
\* calls cleanupExpiredEntries
CleanupExpiredEntries ==
    /\ cacheFiles' = cleanupExpiredEntries(cacheFiles, clock)
    /\ cacheFiles' # cacheFiles
    /\ writeOrder' = orderWithout(writeOrder, DOMAIN cacheFiles \ DOMAIN cacheFiles')
    /\ lastGet' = <<>>
    /\ lastSet' = <<>>
    /\ lastCleanup' = <<[before |-> cacheFiles, at |-> clock]>>
    /\ UNCHANGED <<clock, clsVars, hashVars, syncVars, keyVars, fmVars, ghVars, retryVars,
                   safeVars, rateVars, parVars>>

\* an entry file is damaged outside the CacheManager and no longer parses
CorruptFile ==
    /\ \E key \in DOMAIN cacheFiles :
          /\ ~cacheFiles[key].corrupt
          /\ cacheFiles' = [cacheFiles EXCEPT ![key] = unparseable(cacheFiles[key].mtime)]
    /\ lastGet' = <<>>
    /\ lastSet' = <<>>
    /\ lastCleanup' = <<>>
    /\ UNCHANGED <<clock, writeOrder, clsVars, hashVars, syncVars, keyVars, fmVars, ghVars, retryVars,
                   safeVars, rateVars, parVars>>

\* time passes
CacheTick ==
    /\ clock < MaxCacheTime
    /\ clock' = clock + 1
    /\ lastGet' = <<>>
    /\ lastSet' = <<>>
    /\ lastCleanup' = <<>>
    /\ UNCHANGED <<cacheFiles, writeOrder, clsVars, hashVars, syncVars, keyVars, fmVars, ghVars, retryVars,
                   safeVars, rateVars, parVars>>

CacheNext ==
    \/ SetWritten
    \/ SetFailed
    \/ Get
    \/ Delete
    \/ Clear
    \/ CleanupExpiredEntries
    \/ CorruptFile
    \/ CacheTick

(***************************************************************************)
(* Cache claims                                                            *)
(***************************************************************************)
\* the get just made found a file that parses
GetOfReadable == lastGet # <<>> /\ lastGet[1].before # <<>> /\ ~lastGet[1].before[1].corrupt

\* the get just made found no file
GetOfAbsent == lastGet # <<>> /\ lastGet[1].before = <<>>

\* C8 as stated: get returns the cached value if an entry is present and
\* now < expiresAt; otherwise, also at now = expiresAt, it reports a miss
\* and the stale entry is no longer in the store.
C8_GetAsStated ==
    /\ GetOfReadable =>
          LET g == lastGet[1] IN
          IF g.at < g.before[1].expires
          THEN g.returned = <<g.before[1].data>>
          ELSE g.returned = <<>> /\ g.key \notin DOMAIN cacheFiles
    /\ GetOfAbsent => lastGet[1].returned = <<>>

\* C8 amended: get returns the cached value if an entry is present and
\* now <= expiresAt; otherwise (no entry, or now > expiresAt) it reports a
\* miss and the stale entry is no longer in the store.
C8_GetHitOrEvict ==
    /\ GetOfReadable =>
          LET g == lastGet[1] IN
          IF g.at <= g.before[1].expires
          THEN g.returned = <<g.before[1].data>> /\ cacheFiles[g.key] = g.before[1]
          ELSE g.returned = <<>> /\ g.key \notin DOMAIN cacheFiles
    /\ GetOfAbsent => lastGet[1].returned = <<>> /\ lastGet[1].key \notin DOMAIN cacheFiles

\* C8 witness: a get at the very time the entry expires, which is a hit
C8_Witness ==
    /\ GetOfReadable
    /\ lastGet[1].at = lastGet[1].before[1].expires
    /\ lastGet[1].returned = <<lastGet[1].before[1].data>>

\* C9: an entry set with ttl = T at time t0 and still in the store is
\* returned by get at every time before t0 + T and is a miss at every time
\* after t0 + T.
C9_TtlBoundary ==
    GetOfReadable =>
        LET g == lastGet[1]
            e == g.before[1]
        IN  /\ g.at < e.timestamp + e.ttl => g.returned = <<e.data>>
            /\ g.at > e.timestamp + e.ttl => g.returned = <<>>

\* C9 witness: a get after the entry's ttl has run out, which is a miss
C9_Witness ==
    /\ GetOfReadable
    /\ lastGet[1].at = lastGet[1].before[1].timestamp + lastGet[1].before[1].ttl + 1
    /\ lastGet[1].returned = <<>>

\* the n least recently written keys of a write order
OldestKeys(order, n) == {order[i] : i \in 1..n}

\* C10: after a set the store holds at most maxCacheSize entries, and the
\* entries it keeps are the most recently written ones: what the set
\* evicted are the least recently written keys.
C10_SizeCapKeepsNewest ==
    (lastSet # <<>> /\ ~lastSet[1].failed) =>
        LET s == lastSet[1] IN
        /\ Cardinality(DOMAIN cacheFiles) <= maxCacheSize
        /\ Len(s.order) > maxCacheSize =>
               /\ Cardinality(DOMAIN cacheFiles) = maxCacheSize
               /\ s.evicted = OldestKeys(s.order, Len(s.order) - maxCacheSize)

\* the get just made found a file that JSON.parse rejects
GetOfCorrupt == lastGet # <<>> /\ lastGet[1].before # <<>> /\ lastGet[1].before[1].corrupt

\* C12: a stored entry that is corrupt is treated by get as a miss, not an
\* error, and is dropped: it is no longer in the store after the get.
C12_CorruptIsMissAndDropped ==
    GetOfCorrupt =>
        /\ lastGet[1].returned = <<>>
        /\ lastGet[1].key \notin DOMAIN cacheFiles

\* C13: set never throws to the caller; a set whose write fails leaves the
\* stored entries as they were; a set whose write succeeds overwrites the
\* entry of its key: if the key is in the store afterwards it holds the new
\* data, timestamp and ttl, and it is in the store unless the size cap
\* evicted entries.
C13_SetOverwritesOrNoOp ==
    lastSet # <<>> =>
        LET s == lastSet[1] IN
        /\ ~s.threw
        /\ s.failed => cacheFiles = s.before
        /\ ~s.failed =>
               /\ s.key \in DOMAIN cacheFiles =>
                      /\ cacheFiles[s.key].data = s.data
                      /\ cacheFiles[s.key].timestamp = s.at
                      /\ cacheFiles[s.key].ttl = s.ttl
               /\ s.evicted = {} => s.key \in DOMAIN cacheFiles

\* C13 witness: a set failed to write in a store that holds entries
C13_Witness ==
    /\ lastSet # <<>>
    /\ lastSet[1].failed
    /\ Cardinality(DOMAIN cacheFiles) > 1

(***************************************************************************)
(* CacheManager.generateCacheKey.  A params object is the sequence of its  *)
(* properties in insertion order; a value is a string or a nested object.  *)
(***************************************************************************)
K_owner   == <<"o", "w", "n", "e", "r">>
K_repo    == <<"r", "e", "p", "o">>
K_options == <<"o", "p", "t", "i", "o", "n", "s">>
K_state   == <<"s", "t", "a", "t", "e">>
K_page    == <<"p", "a", "g", "e">>

Str(s) == [type |-> "string", str |-> s, props |-> <<>>]
Obj(props) == [type |-> "object", str |-> "", props |-> props]
Prop(k, v) == [key |-> k, value |-> v]

\* Object.keys(params): the own property names in insertion order
Object_keys(params) == [i \in 1..Len(params.props) |-> params.props[i].key]

hasOwnProperty(object, k) == \E i \in 1..Len(object.props) : object.props[i].key = k

getProperty(object, k) ==
    object.props[CHOOSE i \in 1..Len(object.props) : object.props[i].key = k].value

\* JSON.stringify(value, replacer) with an array replacer: at every level
\* of nesting only the properties named in the array are serialized, in the
\* order of the array.  The text is modelled by the tree it spells out.
RECURSIVE JSON_stringify_replacer(_, _)
JSON_stringify_replacer(value, replacer) ==
    IF value.type = "string" THEN Str(value.str)
    ELSE LET listed == SelectSeq(replacer, LAMBDA k : hasOwnProperty(value, k))
         IN  Obj([j \in 1..Len(listed) |->
                    Prop(listed[j],
                         JSON_stringify_replacer(getProperty(value, listed[j]), replacer))])

\* crypto.createHash('md5').update(text).digest('hex'), collision free
md5(text) == [md5 |-> text]

\* generateCacheKey whose replacer is Object.keys(params), not sorted
generateCacheKey_unsortedKeys(prefix, params) ==
    [prefix |-> prefix,
     hash |-> md5(JSON_stringify_replacer(params, Object_keys(params)))]

\* CacheManager.generateCacheKey: `${prefix}_${hash}`
generateCacheKey(prefix, params) ==
    [prefix |-> prefix,
     hash |-> md5(JSON_stringify_replacer(params, sort(Object_keys(params))))]

KeyPrefixes == {"issues", "comments"}

\* the filter options of a request
KeyOptionsKeys == <<K_state, K_page>>

KeyOptionsPool ==
    {Obj(<<Prop(K_state, Str(s)), Prop(K_page, Str(p))>>) :
        s \in {"open", "closed"}, p \in {"1", "2"}}

\* the params objects of the GitHubClient calls, in one construction order
KeyParamsPool ==
    {Obj(<<Prop(K_owner, Str("zaki")), Prop(K_repo, Str(r)), Prop(K_options, o)>>) :
        r \in {"web", "api"}, o \in KeyOptionsPool}
    \cup {Obj(<<Prop(K_state, Str(s)), Prop(K_options, o)>>) :
        s \in {"open", "closed"}, o \in KeyOptionsPool}
    \cup {Obj(<<Prop(K_page, Str(p)), Prop(K_repo, Str("web"))>>) : p \in {"1", "2"}}

\* the sequence with its elements at i and i + 1 exchanged
swapped(seq, i) ==
    [j \in 1..Len(seq) |-> IF j = i THEN seq[i + 1] ELSE IF j = i + 1 THEN seq[i] ELSE seq[j]]

\* the objects with the properties of an object, two neighbouring
\* properties built in the other order: at the top level or in a nested object
Reorderings(object) ==
    {Obj(swapped(object.props, i)) : i \in 1..(Len(object.props) - 1)}
    \cup {Obj([object.props EXCEPT ![i].value = Obj(swapped(@.props, j))]) :
            i \in {n \in 1..Len(object.props) : object.props[n].value.type = "object"},
            j \in 1..(Len(KeyOptionsKeys) - 1)}

KeyIdle ==
    /\ keyParamsA = Obj(<<>>)
    /\ keyParamsB = Obj(<<>>)
    /\ keyOfA = <<>>
    /\ keyOfB = <<>>
    /\ keyPc = "idle"

KeyInit ==
    /\ keyParamsA \in KeyParamsPool
    /\ keyParamsB = keyParamsA
    /\ keyOfA = <<>>
    /\ keyOfB = <<>>
    /\ keyPc = "build"

\* a caller builds the same params object with two properties in the other order
ReorderParams ==
    /\ keyPc = "build"
    /\ \E o \in Reorderings(keyParamsB) : keyParamsB' = o
    /\ UNCHANGED <<keyParamsA, keyOfA, keyOfB, keyPc, clsVars, hashVars, syncVars, cacheVars, fmVars, ghVars, retryVars,
                   safeVars, rateVars, parVars>>

\* a caller asks for another repository
ChangeParams ==
    /\ keyPc = "build"
    /\ \E i \in 1..Len(keyParamsB.props) :
          /\ keyParamsB.props[i].key = K_repo
          /\ keyParamsB' = Obj([keyParamsB.props EXCEPT ![i].value =
                                   IF @ = Str("web") THEN Str("api") ELSE Str("web")])
    /\ UNCHANGED <<keyParamsA, keyOfA, keyOfB, keyPc, clsVars, hashVars, syncVars, cacheVars, fmVars, ghVars, retryVars,
                   safeVars, rateVars, parVars>>

\* a caller asks with another state filter in its options
ChangeOptions ==
    /\ keyPc = "build"
    /\ \E i \in 1..Len(keyParamsB.props), j \in 1..Len(KeyOptionsKeys) :
          /\ keyParamsB.props[i].key = K_options
          /\ keyParamsB.props[i].value.props[j].key = K_state
          /\ keyParamsB' = Obj([keyParamsB.props EXCEPT ![i].value.props[j].value =
                                   IF @ = Str("open") THEN Str("closed") ELSE Str("open")])
    /\ UNCHANGED <<keyParamsA, keyOfA, keyOfB, keyPc, clsVars, hashVars, syncVars, cacheVars, fmVars, ghVars, retryVars,
                   safeVars, rateVars, parVars>>

\* generateCacheKey(prefix, params) for both objects
GenerateCacheKey ==
    /\ keyPc = "build"
    /\ \E prefix \in KeyPrefixes :
          /\ keyOfA' = <<generateCacheKey(prefix, keyParamsA)>>
          /\ keyOfB' = <<generateCacheKey(prefix, keyParamsB)>>
    /\ keyPc' = "keyed"
    /\ UNCHANGED <<keyParamsA, keyParamsB, clsVars, hashVars, syncVars, cacheVars, fmVars, ghVars, retryVars,
                   safeVars, rateVars, parVars>>

KeyNext == ReorderParams \/ ChangeParams \/ ChangeOptions \/ GenerateCacheKey

(***************************************************************************)
(* Cache key claims                                                        *)
(***************************************************************************)
\* an object as the set of its properties, nested objects likewise: what
\* two objects with the same keys and values share whatever their order
RECURSIVE Unordered(_)
Unordered(value) ==
    IF value.type = "string" THEN <<"string", value.str>>
    ELSE <<"object", {<<value.props[i].key, Unordered(value.props[i].value)>> :
                        i \in 1..Len(value.props)}>>

\* C11: two params objects with the same keys and values, built in
\* different key orders, get the same generateCacheKey result for the same
\* prefix.
C11_KeyOrderIndependent ==
    (keyPc = "keyed" /\ Unordered(keyParamsA) = Unordered(keyParamsB)) => keyOfA = keyOfB

\* C11 witness: keys were generated for two objects that differ in the
\* order of their top-level properties and of their nested properties
C11_Witness ==
    /\ keyPc = "keyed"
    /\ Unordered(keyParamsA) = Unordered(keyParamsB)
    /\ Object_keys(keyParamsA) # Object_keys(keyParamsB)
    /\ \E i \in 1..Len(keyParamsA.props) :
          /\ keyParamsA.props[i].value.type = "object"
          /\ getProperty(keyParamsB, keyParamsA.props[i].key) # keyParamsA.props[i].value
    /\ keyOfA = keyOfB

(***************************************************************************)
(* Artifact files.  A path under outputDir is [dir, name]: dir is the      *)
(* category directory, or "." for outputDir itself; name is the filename   *)
(* as a sequence of characters.  The tree is the set of category           *)
(* directories that exist and the set of artifact files.                   *)
(***************************************************************************)
isSlugChar(c) ==
    \/ charCode(c) \in 97..122
    \/ charCode(c) \in 48..57
    \/ c = " "
    \/ c = "-"

\* .replace(/\s+/g, '-').replace(/-+/g, '-'): every run of whitespace and
\* hyphens becomes one hyphen
RECURSIVE hyphenate(_)
hyphenate(s) ==
    IF s = <<>> THEN <<>>
    ELSE LET c == IF Head(s) = " " THEN "-" ELSE Head(s)
             rest == hyphenate(Tail(s))
         IN  IF c = "-" /\ rest # <<>> /\ Head(rest) = "-" THEN rest ELSE <<c>> \o rest

\* .replace(/^-|-$/g, '')
trimHyphens(s) ==
    LET from == IF s # <<>> /\ s[1] = "-" THEN 2 ELSE 1
        to == IF Len(s) >= from /\ s[Len(s)] = "-" THEN Len(s) - 1 ELSE Len(s)
    IN  SubSeq(s, from, to)

S_issue == <<"i", "s", "s", "u", "e">>
S_untitled == <<"u", "n", "t", "i", "t", "l", "e", "d">>
S_md == <<".", "m", "d">>

\* createSlug(title)
createSlug(title) ==
    IF title = <<>> THEN S_issue
    ELSE LET slug == trimHyphens(hyphenate(SelectSeq(toLowerCase(title), isSlugChar)))
         IN  IF slug = <<>> THEN S_issue ELSE slug

\* generateFilename(issue): `${issue.number}-${slug}.md`
generateFilename(issue) ==
    toString(issue.number) \o <<"-">>
        \o createSlug(IF issue.title = <<>> THEN S_untitled ELSE issue.title) \o S_md

\* file.endsWith('.md')
endsWith(name, suffix) ==
    /\ Len(name) >= Len(suffix)
    /\ SubSeq(name, Len(name) - Len(suffix) + 1, Len(name)) = suffix

isDigit(c) == charCode(c) \in 48..57

\* filename.match(/^(\d+)-/): <<digits>> of the match, <<>> for null
issueNumberMatch(name) ==
    LET n == Cardinality({i \in 1..Len(name) : \A j \in 1..i : isDigit(name[j])})
    IN  IF n >= 1 /\ Len(name) > n /\ name[n + 1] = "-" THEN <<SubSeq(name, 1, n)>> ELSE <<>>

\* path.join(outputDir, state, filename)
Path(dir, name) == [dir |-> dir, name |-> name]

\* FileManager.categorizeIssueFromPath: <<state>> for a parent directory in
\* folderToState, <<>> for null
categorizeIssueFromPath(filePath) ==
    IF filePath.dir \in {"todo", "active", "done", "blocked"} THEN <<filePath.dir>> ELSE <<>>

Tree(dirs, artifacts) == [dirs |-> dirs, files |-> artifacts]

\* ensureDirectoryExists(dirPath)
ensureDirectoryExists(tree, dir) ==
    IF dir = "." THEN tree ELSE [tree EXCEPT !.dirs = @ \cup {dir}]

\* cleanupEmptyDirectory that never removes a directory
cleanupEmptyDirectory_keeps(tree, dir) == tree

\* FileManager.cleanupEmptyDirectory(dirPath): rmdir when readdir is empty
cleanupEmptyDirectory(tree, dir) ==
    IF dir \in tree.dirs /\ ~\E f \in tree.files : f.dir = dir
    THEN [tree EXCEPT !.dirs = @ \ {dir}]
    ELSE tree

\* fs.renameSync(from, to)
renameSync(tree, from, to) == [tree EXCEPT !.files = (@ \ {from}) \cup {to}]

\* safeWriteFile(filePath, content): the directory is created when missing
safeWriteFile(tree, filePath) ==
    [ensureDirectoryExists(tree, filePath.dir) EXCEPT !.files = @ \cup {filePath}]

\* SyncTracker.getIssueData(issueNumber): <<entry>>, <<>> for null
getIssueData(data, issueNumber) ==
    IF hasEntry(data, toString(issueNumber))
    THEN <<data.issues[toString(issueNumber)]>> ELSE <<>>

\* relocateOne that loses the file when its renameSync throws
relocateOne_losesOnError(data, tree, issue, failing) ==
    LET issueData == getIssueData(data, issue.number)
        currentState == categorizeIssue(issue)
        previousState == categorizeIssueFromPath(issueData[1].filePath)
        previousPath == issueData[1].filePath
        newPath == Path(currentState, previousPath.name)
    IN  IF issueData = <<>> THEN [tree |-> tree, moved |-> {}]
        ELSE IF previousState = <<>> \/ currentState = previousState[1]
             THEN [tree |-> tree, moved |-> {}]
        ELSE IF previousPath \notin tree.files THEN [tree |-> tree, moved |-> {}]
        ELSE IF previousPath \in failing
             THEN [tree |-> [tree EXCEPT !.files = @ \ {previousPath}], moved |-> {}]
        ELSE [tree |-> cleanupEmptyDirectory(
                           renameSync(ensureDirectoryExists(tree, currentState),
                                      previousPath, newPath),
                           previousPath.dir),
              moved |-> {[number |-> issue.number, from |-> previousPath, to |-> newPath]}]

\* relocateOne that copies the file and leaves the previous one in place
relocateOne_keepsCopy(data, tree, issue, failing) ==
    LET issueData == getIssueData(data, issue.number)
        currentState == categorizeIssue(issue)
        previousState == categorizeIssueFromPath(issueData[1].filePath)
        previousPath == issueData[1].filePath
        newPath == Path(currentState, previousPath.name)
    IN  IF issueData = <<>> THEN [tree |-> tree, moved |-> {}]
        ELSE IF previousState = <<>> \/ currentState = previousState[1]
             THEN [tree |-> tree, moved |-> {}]
        ELSE IF previousPath \notin tree.files THEN [tree |-> tree, moved |-> {}]
        ELSE IF previousPath \in failing
             THEN [tree |-> ensureDirectoryExists(tree, currentState), moved |-> {}]
        ELSE [tree |-> safeWriteFile(tree, newPath),
              moved |-> {[number |-> issue.number, from |-> previousPath, to |-> newPath]}]

\* one turn of the auto-reorganize loop of performIncrementalSync for an
\* issue; failing holds the paths whose renameSync throws.  The result
\* has the tree and the move made, if any.
relocateOne(data, tree, issue, failing) ==
    LET issueData == getIssueData(data, issue.number)
        currentState == categorizeIssue(issue)
        previousState == categorizeIssueFromPath(issueData[1].filePath)
        previousPath == issueData[1].filePath
        newPath == Path(currentState, previousPath.name)
    IN  IF issueData = <<>> THEN [tree |-> tree, moved |-> {}]
        ELSE IF previousState = <<>> \/ currentState = previousState[1]
             THEN [tree |-> tree, moved |-> {}]
        ELSE IF previousPath \notin tree.files THEN [tree |-> tree, moved |-> {}]
        ELSE IF previousPath \in failing
             THEN [tree |-> ensureDirectoryExists(tree, currentState), moved |-> {}]
        ELSE [tree |-> cleanupEmptyDirectory(
                           renameSync(ensureDirectoryExists(tree, currentState),
                                      previousPath, newPath),
                           previousPath.dir),
              moved |-> {[number |-> issue.number, from |-> previousPath, to |-> newPath]}]

\* the auto-reorganize loop of performIncrementalSync over allIssues
RECURSIVE relocateAll(_, _, _, _)
relocateAll(data, tree, allIssues, failing) ==
    IF allIssues = <<>> THEN [tree |-> tree, moved |-> {}]
    ELSE LET first == relocateOne(data, tree, Head(allIssues), failing)
             rest == relocateAll(data, first.tree, Tail(allIssues), failing)
         IN  [tree |-> rest.tree, moved |-> first.moved \cup rest.moved]

\* FileManager.handleIssueStateChange(issue, outputDir, syncTracker): the
\* tree it leaves; an error of renameSync is caught
handleIssueStateChange(data, tree, issue, failing) ==
    LET currentState == categorizeIssue(issue)
        currentPath == Path(currentState, generateFilename(issue))
        previousIssueData == getIssueData(data, issue.number)
        previousState == categorizeIssueFromPath(previousIssueData[1].filePath)
        previousPath == previousIssueData[1].filePath
    IN  IF previousIssueData = <<>> THEN tree
        ELSE IF previousState = <<>> \/ previousState[1] = currentState THEN tree
        ELSE IF previousPath \notin tree.files THEN tree
        ELSE IF previousPath \in failing THEN ensureDirectoryExists(tree, currentState)
        ELSE cleanupEmptyDirectory(
                 renameSync(ensureDirectoryExists(tree, currentState),
                            previousPath, currentPath),
                 previousPath.dir)

\* loadSyncData that returns what the file held also when it cannot be parsed
loadSyncData_keepsStale(file, readable) ==
    IF file # <<>> THEN file[1] ELSE EmptySyncData

\* SyncTracker.loadSyncData: the parsed file, or the empty ledger when the
\* file is missing or reading or parsing it throws
loadSyncData(file, readable) ==
    IF file # <<>> /\ readable THEN file[1] ELSE EmptySyncData

\* SyncTracker.updateLastSyncTime
updateLastSyncTime(data, time) == [data EXCEPT !.lastSync = <<time>>]

\* cleanDirectory(dirPath): every file and subdirectory below it goes
cleanDirectory(tree, dir) ==
    IF dir = "." THEN Tree({}, {})
    ELSE [tree EXCEPT !.files = {f \in @ : f.dir # dir}]

\* FileManager.cleanOutputDirectory(outputDir)
cleanOutputDirectory(tree, config) ==
    IF config.group_by_state
    THEN cleanDirectory(cleanDirectory(cleanDirectory(cleanDirectory(tree, "active"),
                                                      "todo"), "done"), "blocked")
    ELSE cleanDirectory(tree, ".")

\* issueMap.get that answers with the first issue for an unknown number
issueMap_get_defaultsToFirst(issues, issueNumber) ==
    LET at == {i \in 1..Len(issues) : issues[i].number = issueNumber}
    IN  IF issues = <<>> THEN <<>>
        ELSE IF at = {} THEN <<issues[1]>>
        ELSE <<issues[CHOOSE i \in at : \A j \in at : j <= i]>>

\* issueMap.get(issueNumber): <<issue>>, <<>> for undefined; a later issue
\* of the list replaces an earlier one with the same number
issueMap_get(issues, issueNumber) ==
    LET at == {i \in 1..Len(issues) : issues[i].number = issueNumber}
    IN  IF at = {} THEN <<>> ELSE <<issues[CHOOSE i \in at : \A j \in at : j <= i]>>

\* the files of a state directory that reorganizeFilesByState finds out of
\* place: an .md file whose leading number is a fetched issue of another
\* category
misplaced(issues, tree, currentStateDir) ==
    {f \in tree.files :
        /\ f.dir = currentStateDir
        /\ endsWith(f.name, S_md)
        /\ issueNumberMatch(f.name) # <<>>
        /\ issueMap_get(issues, parseInt(issueNumberMatch(f.name)[1])) # <<>>
        /\ categorizeIssue(issueMap_get(issues, parseInt(issueNumberMatch(f.name)[1]))[1])
               # currentStateDir}

\* where reorganizeFilesByState moves a misplaced file
targetPath(issues, f) ==
    Path(categorizeIssue(issueMap_get(issues, parseInt(issueNumberMatch(f.name)[1]))[1]),
         f.name)

\* the scan of reorganizeFilesByState over stateDirectories; failing holds
\* the paths whose renameSync throws (caught per file)
RECURSIVE scanStateDirectories(_, _, _, _, _, _)
scanStateDirectories(stateDirectories, issues, tree, dryRun, failing, movedCount) ==
    IF stateDirectories = <<>> THEN [movedCount |-> movedCount, tree |-> tree]
    ELSE LET currentStateDir == Head(stateDirectories)
             found == misplaced(issues, tree, currentStateDir)
             renamed == found \ failing
             after == cleanupEmptyDirectory(
                          Tree(tree.dirs \cup {targetPath(issues, f).dir : f \in found},
                               (tree.files \ renamed)
                                   \cup {targetPath(issues, f) : f \in renamed}),
                          currentStateDir)
         IN  IF currentStateDir \notin tree.dirs
             THEN scanStateDirectories(Tail(stateDirectories), issues, tree, dryRun,
                                       failing, movedCount)
             ELSE IF dryRun
             THEN scanStateDirectories(Tail(stateDirectories), issues, tree, dryRun,
                                       failing, movedCount + Cardinality(found))
             ELSE scanStateDirectories(Tail(stateDirectories), issues, after, dryRun,
                                       failing, movedCount + Cardinality(renamed))

\* reorganizeFilesByState that moves the files also in a dry run
reorganizeFilesByState_dryRunMoves(issues, tree, config, dryRun, failing) ==
    IF ~config.group_by_state THEN [movedCount |-> 0, tree |-> tree]
    ELSE scanStateDirectories(<<"active", "todo", "done", "blocked">>, issues, tree,
                              FALSE, failing, 0)

\* FileManager.reorganizeFilesByState(issues, repositoryConfig, dryRun)
reorganizeFilesByState(issues, tree, config, dryRun, failing) ==
    IF ~config.group_by_state THEN [movedCount |-> 0, tree |-> tree]
    ELSE scanStateDirectories(<<"active", "todo", "done", "blocked">>, issues, tree,
                              dryRun, failing, 0)

(***************************************************************************)
(* FileManager passes: the sync command calls writeIssues(issues, repo)    *)
(* with incremental sync on; the reorganize command calls                  *)
(* reorganizeFilesByState.  writeIssues is followed step by step, one      *)
(* action for each part that ends at an await or at its return.            *)
(***************************************************************************)
T_fixA == <<"F", "i", "x", " ", "A", "!">>
T_fixB == <<"F", "i", "x", " ", " ", "B">>

PassIssue(n, state, labels, title) ==
    [BaseIssue(n) EXCEPT !.state = state, !.labels = labels, !.title = title]

\* what upstream may hold of issue 1 (blocked, closed, closed and renamed)
\* and of issue 12
PassVersions(n) ==
    IF n = 1
    THEN {PassIssue(1, "open", Labels(<<L_Blocked>>), T_fixA),
          PassIssue(1, "closed", Labels(<<L_Blocked>>), T_fixA),
          PassIssue(1, "closed", Labels(<<L_Blocked>>), T_fixB)}
    ELSE {PassIssue(n, "open", Labels(<<L_bug>>), T_fixA)}

\* the fetched lists: nothing, one issue in one of its versions, or the two
\* issues once issue 1 is closed
PassFetchedLists ==
    {<<>>}
        \cup {<<v>> : v \in PassVersions(1) \cup PassVersions(12)}
        \cup {<<v, w>> : v \in {u \in PassVersions(1) :
                                   u.state = "closed" /\ u.title = T_fixA},
                         w \in PassVersions(12)}

\* the options of the sync command that processRepository reads
SyncOptions == {[dryRun |-> b] : b \in BOOLEAN}

\* processRepository that goes on to writeIssues whatever the options
processRepository_ignoresDryRun(options) == TRUE

\* processRepository goes on to writeIssues unless options.dryRun made it
\* return
processRepository_writes(options) == ~options.dryRun

\* GitHubClient.safeGetIssues: what getIssues returned, or the fallback []
\* of safeExecute when retry threw after its last attempt
safeGetIssues(issues, failed) == IF failed THEN <<>> ELSE issues

PassConfigs ==
    {[group_by_state |-> TRUE,  auto_reorganize |-> TRUE, clean_before_sync |-> FALSE],
     [group_by_state |-> TRUE,  auto_reorganize |-> TRUE, clean_before_sync |-> TRUE],
     [group_by_state |-> FALSE, auto_reorganize |-> TRUE, clean_before_sync |-> FALSE]}

NoLog ==
    [op |-> "none", outcome |-> "none", ledgerAtStart |-> <<>>, loadFailed |-> FALSE,
     synced |-> FALSE,
     new |-> {}, updated |-> {}, unchanged |-> {}, deleted |-> {},
     due |-> {}, failing |-> {}, relocated |-> {}, cleaned |-> FALSE,
     cleanup |-> <<>>, missing |-> {}, handleFailed |-> {},
     written |-> {}, writeFailed |-> {},
     saves |-> 0, saveFailed |-> FALSE,
     dryRun |-> FALSE, movedCount |-> 0, treeBefore |-> Tree({}, {}),
     fetchFailed |-> FALSE]

FmIdle ==
    /\ fmDirs = {}
    /\ fmFiles = {}
    /\ ledgerFile = <<>>
    /\ tracker = EmptySyncData
    /\ passIssues = <<>>
    /\ passQueue = <<>>
    /\ passPc = "idle"
    /\ passNo = 0
    /\ passLog = NoLog
    /\ outputConfig = [group_by_state |-> TRUE, auto_reorganize |-> TRUE,
                       clean_before_sync |-> FALSE]

\* a fresh checkout: no output directory, no ledger
FmInit ==
    /\ fmDirs = {}
    /\ fmFiles = {}
    /\ ledgerFile = <<>>
    /\ tracker = EmptySyncData
    /\ passIssues = <<>>
    /\ passQueue = <<>>
    /\ passPc = "idle"
    /\ passNo = 0
    /\ passLog = NoLog
    /\ outputConfig \in PassConfigs

\* history: the relocations that are due when performIncrementalSync is
\* called: a fetched issue with a ledger entry whose recorded file exists
\* under a category directory other than the issue's category
DueRelocations(data, tree, issues) ==
    {[number |-> issues[i].number,
      from |-> data.issues[toString(issues[i].number)].filePath,
      to |-> Path(categorizeIssue(issues[i]),
                  data.issues[toString(issues[i].number)].filePath.name)] :
        i \in {j \in 1..Len(issues) :
                 /\ hasEntry(data, toString(issues[j].number))
                 /\ data.issues[toString(issues[j].number)].filePath.dir
                        \in {"active", "todo", "done", "blocked"} \ {categorizeIssue(issues[j])}
                 /\ data.issues[toString(issues[j].number)].filePath \in tree.files}}

\* history: the fetched issues with a ledger entry under another category
\* directory whose recorded file is not on disk
MissingRelocations(data, tree, issues) ==
    {issues[i].number :
        i \in {j \in 1..Len(issues) :
                 /\ hasEntry(data, toString(issues[j].number))
                 /\ data.issues[toString(issues[j].number)].filePath.dir
                        \in {"active", "todo", "done", "blocked"} \ {categorizeIssue(issues[j])}
                 /\ data.issues[toString(issues[j].number)].filePath \notin tree.files}}

\* a file whose unlinkSync or renameSync throws during a step: at most one
Failing == {{}} \cup {{f} : f \in fmFiles}

\* processRepository fetches with safeGetIssues (failed: the fetch failed on
\* every attempt) and calls writeIssues, which starts: new
\* SyncTracker(repositoryConfig) loads the ledger; ~readable is a ledger file
\* that cannot be read or parsed
StartPass ==
    /\ passPc = "idle"
    /\ passNo < MaxPasses
    /\ \E list \in PassFetchedLists, failed \in BOOLEAN, readable \in BOOLEAN,
          options \in SyncOptions :
          /\ processRepository_writes(options)
          /\ (~readable => ledgerFile # <<>>)
          /\ passIssues' = safeGetIssues(list, failed)
          /\ tracker' = loadSyncData(ledgerFile, readable)
          /\ passLog' = [NoLog EXCEPT !.op = "sync", !.outcome = "running",
                                      !.dryRun = options.dryRun,
                                      !.treeBefore = Tree(fmDirs, fmFiles),
                                      !.ledgerAtStart = ledgerFile,
                                      !.loadFailed = ~readable,
                                      !.fetchFailed = failed]
    /\ passQueue' = <<>>
    /\ passPc' = "sync"
    /\ passNo' = passNo + 1
    /\ UNCHANGED <<fmDirs, fmFiles, ledgerFile, outputConfig,
                   clsVars, hashVars, syncVars, cacheVars, keyVars, ghVars, retryVars,
                   safeVars, rateVars, parVars>>

\* syncStats = await performIncrementalSync(issues, syncTracker, outputDir)
\* and the return of [] when syncStats.total is 0
PerformIncrementalSync ==
    /\ passPc = "sync"
    /\ \E failing \in Failing :
          LET changeSet == getChangedIssues(tracker, passIssues)
              cleaned == IF Len(changeSet.deleted) > 0
                         THEN cleanupDeletedIssues(tracker, fmFiles, changeSet.deleted, failing)
                         ELSE [data |-> tracker, disk |-> fmFiles]
              allIssues == changeSet.new \o changeSet.updated \o changeSet.unchanged
              reorganized ==
                  IF outputConfig.group_by_state /\ outputConfig.auto_reorganize
                  THEN relocateAll(cleaned.data, Tree(fmDirs, cleaned.disk), allIssues, failing)
                  ELSE [tree |-> Tree(fmDirs, cleaned.disk), moved |-> {}]
              total == Len(allIssues)
          IN  /\ tracker' = IF total = 0 THEN EmptySyncData ELSE cleaned.data
              /\ fmDirs' = reorganized.tree.dirs
              /\ fmFiles' = reorganized.tree.files
              /\ passQueue' = [i \in 1..Len(changeSet.new \o changeSet.updated) |->
                                  [issue |-> (changeSet.new \o changeSet.updated)[i], dir |-> "."]]
              /\ passLog' = [passLog EXCEPT
                                !.synced = TRUE,
                                !.new = Numbers(changeSet.new),
                                !.updated = Numbers(changeSet.updated),
                                !.unchanged = Numbers(changeSet.unchanged),
                                !.deleted = Numbers(changeSet.deleted),
                                !.due = IF outputConfig.group_by_state
                                           /\ outputConfig.auto_reorganize
                                        THEN DueRelocations(tracker, Tree(fmDirs, fmFiles),
                                                            passIssues)
                                        ELSE {},
                                !.failing = failing,
                                !.cleanup = <<[deleted |-> changeSet.deleted,
                                               data |-> cleaned.data,
                                               disk |-> cleaned.disk]>>,
                                !.missing = IF outputConfig.group_by_state
                                               /\ outputConfig.auto_reorganize
                                            THEN MissingRelocations(tracker,
                                                     Tree(fmDirs, fmFiles), passIssues)
                                            ELSE {},
                                !.relocated = reorganized.moved,
                                !.outcome = IF total = 0 THEN "skipped" ELSE @]
              /\ passPc' = IF total = 0 THEN "idle"
                           ELSE IF outputConfig.clean_before_sync THEN "clean"
                           ELSE "categorize"
    /\ UNCHANGED <<ledgerFile, passIssues, passNo, outputConfig,
                   clsVars, hashVars, syncVars, cacheVars, keyVars, ghVars, retryVars,
                   safeVars, rateVars, parVars>>

\* this.cleanOutputDirectory(outputDir) when clean_before_sync is set
CleanOutputDirectory ==
    /\ passPc = "clean"
    /\ LET tree == cleanOutputDirectory(Tree(fmDirs, fmFiles), outputConfig)
       IN  /\ fmDirs' = tree.dirs
           /\ fmFiles' = tree.files
    /\ passLog' = [passLog EXCEPT !.cleaned = TRUE]
    /\ passPc' = "categorize"
    /\ UNCHANGED <<ledgerFile, tracker, passIssues, passQueue, passNo, outputConfig,
                   clsVars, hashVars, syncVars, cacheVars, keyVars, ghVars, retryVars,
                   safeVars, rateVars, parVars>>

\* writeIssuesByState that writes every issue under todo
categoryQueue_allTodo(categories) ==
    [i \in 1..Len(categories.active \o categories.todo \o categories.done
                    \o categories.blocked) |->
        [issue |-> (categories.active \o categories.todo \o categories.done
                        \o categories.blocked)[i],
         dir |-> "todo"]]

\* the order in which writeIssuesByState writes: Object.entries(categories)
categoryQueue(categories) ==
    [i \in 1..Len(categories.active) |-> [issue |-> categories.active[i], dir |-> "active"]]
    \o [i \in 1..Len(categories.todo) |-> [issue |-> categories.todo[i], dir |-> "todo"]]
    \o [i \in 1..Len(categories.done) |-> [issue |-> categories.done[i], dir |-> "done"]]
    \o [i \in 1..Len(categories.blocked) |->
           [issue |-> categories.blocked[i], dir |-> "blocked"]]

\* writeIssuesByState or writeIssuesFlat is entered: with group_by_state
\* the issues are categorized, and a TypeError of categorizeIssuesByState
\* leaves writeIssues through its catch
EnterWrite ==
    /\ passPc = "categorize"
    /\ LET issuesToProcess == [i \in 1..Len(passQueue) |-> passQueue[i].issue]
           categories == categorizeIssuesByState(issuesToProcess)
       IN  IF ~outputConfig.group_by_state
           THEN /\ passQueue' = passQueue
                /\ passPc' = "write"
                /\ UNCHANGED <<tracker, passLog>>
           ELSE IF categories.threw
           THEN /\ passQueue' = <<>>
                /\ passPc' = "catch"
                /\ UNCHANGED <<tracker, passLog>>
           ELSE /\ passQueue' = categoryQueue(categories)
                /\ passPc' = "write"
                /\ UNCHANGED <<tracker, passLog>>
    /\ UNCHANGED <<fmDirs, fmFiles, ledgerFile, passIssues, passNo, outputConfig,
                   clsVars, hashVars, syncVars, cacheVars, keyVars, ghVars, retryVars,
                   safeVars, rateVars, parVars>>

\* writeOneIssue that marks the issue processed before it writes the file
writeOneIssue_marksFirst(data, tree, config, item, time, failing, writable) ==
    LET filePath == Path(item.dir, generateFilename(item.issue))
        stateDir == ensureDirectoryExists(tree, item.dir)
        handled == IF config.group_by_state /\ config.auto_reorganize
                   THEN handleIssueStateChange(data, stateDir, item.issue, failing)
                   ELSE stateDir
        processed == markIssueProcessed(data, item.issue, filePath, time)
    IN  IF writable
        THEN [threw |-> FALSE, tree |-> safeWriteFile(handled, filePath), data |-> processed]
        ELSE [threw |-> TRUE, tree |-> handled, data |-> processed]

\* one turn of the loop of writeIssuesByState or writeIssuesFlat for the
\* queued issue: the state directory is ensured, handleIssueStateChange
\* runs (group_by_state with auto_reorganize), writeIssueFile writes, and
\* markIssueProcessed follows.  When writeIssueFile throws (~writable) the
\* error leaves the loop before markIssueProcessed.
writeOneIssue(data, tree, config, item, time, failing, writable) ==
    LET filePath == Path(item.dir, generateFilename(item.issue))
        stateDir == ensureDirectoryExists(tree, item.dir)
        handled == IF config.group_by_state /\ config.auto_reorganize
                   THEN handleIssueStateChange(data, stateDir, item.issue, failing)
                   ELSE stateDir
    IN  IF writable
        THEN [threw |-> FALSE, tree |-> safeWriteFile(handled, filePath),
              data |-> markIssueProcessed(data, item.issue, filePath, time)]
        ELSE [threw |-> TRUE, tree |-> handled, data |-> data]

\* history: the renameSync of handleIssueStateChange throws for the issue
handleThrows(data, tree, config, issue, failing) ==
    LET previousIssueData == getIssueData(data, issue.number)
        previousState == categorizeIssueFromPath(previousIssueData[1].filePath)
    IN  /\ config.group_by_state /\ config.auto_reorganize
        /\ previousIssueData # <<>>
        /\ previousState # <<>>
        /\ previousState[1] # categorizeIssue(issue)
        /\ previousIssueData[1].filePath \in tree.files
        /\ previousIssueData[1].filePath \in failing

\* one turn of the write loop: the artifact is written and the issue is
\* marked processed
WriteIssue ==
    /\ passPc = "write"
    /\ passQueue # <<>>
    /\ \E failing \in Failing :
          LET turn == writeOneIssue(tracker, Tree(fmDirs, fmFiles), outputConfig,
                                    Head(passQueue), passNo, failing, TRUE)
          IN  /\ fmDirs' = turn.tree.dirs
              /\ fmFiles' = turn.tree.files
              /\ tracker' = turn.data
              /\ passLog' = [passLog EXCEPT
                                !.written = @ \cup {Head(passQueue).issue.number},
                                !.handleFailed =
                                    IF handleThrows(tracker, Tree(fmDirs, fmFiles), outputConfig,
                                                    Head(passQueue).issue, failing)
                                    THEN @ \cup {Head(passQueue).issue.number} ELSE @]
    /\ passQueue' = Tail(passQueue)
    /\ UNCHANGED <<ledgerFile, passIssues, passPc, passNo, outputConfig,
                   clsVars, hashVars, syncVars, cacheVars, keyVars, ghVars, retryVars,
                   safeVars, rateVars, parVars>>

\* one turn of the write loop in which writeIssueFile throws: the error
\* leaves the loop and reaches the catch of writeIssues
WriteIssueFails ==
    /\ passPc = "write"
    /\ passQueue # <<>>
    /\ \E failing \in Failing :
          LET turn == writeOneIssue(tracker, Tree(fmDirs, fmFiles), outputConfig,
                                    Head(passQueue), passNo, failing, FALSE)
          IN  /\ fmDirs' = turn.tree.dirs
              /\ fmFiles' = turn.tree.files
              /\ tracker' = turn.data
    /\ passLog' = [passLog EXCEPT !.writeFailed = @ \cup {Head(passQueue).issue.number}]
    /\ passQueue' = <<>>
    /\ passPc' = "catch"
    /\ UNCHANGED <<ledgerFile, passIssues, passNo, outputConfig,
                   clsVars, hashVars, syncVars, cacheVars, keyVars, ghVars, retryVars,
                   safeVars, rateVars, parVars>>

\* the catch of writeIssues logs the error and throws it to the caller
ThrowToCaller ==
    /\ passPc = "catch"
    /\ passLog' = [passLog EXCEPT !.outcome = "threw"]
    /\ tracker' = EmptySyncData
    /\ passPc' = "idle"
    /\ UNCHANGED <<fmDirs, fmFiles, ledgerFile, passIssues, passQueue, passNo, outputConfig,
                   clsVars, hashVars, syncVars, cacheVars, keyVars, ghVars, retryVars,
                   safeVars, rateVars, parVars>>

\* saveSyncData that does not replace a ledger file that exists
saveSyncData_keepsFile(file, data) == IF file = <<>> THEN <<data>> ELSE file

\* SyncTracker.saveSyncData when safeWriteFile succeeds: the ledger file
\* holds JSON.stringify(this.syncData)
saveSyncData(file, data) == <<data>>

\* the end of writeIssues: updateLastSyncTime, saveSyncData, return
SaveSyncData ==
    /\ passPc = "write"
    /\ passQueue = <<>>
    /\ ledgerFile' = saveSyncData(ledgerFile, updateLastSyncTime(tracker, passNo))
    /\ passLog' = [passLog EXCEPT !.saves = @ + 1, !.outcome = "success"]
    /\ tracker' = EmptySyncData
    /\ passPc' = "idle"
    /\ UNCHANGED <<fmDirs, fmFiles, passIssues, passQueue, passNo, outputConfig,
                   clsVars, hashVars, syncVars, cacheVars, keyVars, ghVars, retryVars,
                   safeVars, rateVars, parVars>>

\* the end of writeIssues when the ledger file cannot be written: the catch
\* of saveSyncData warns, and writeIssues returns as after a save
SaveSyncDataFails ==
    /\ passPc = "write"
    /\ passQueue = <<>>
    /\ passLog' = [passLog EXCEPT !.saveFailed = TRUE, !.outcome = "success"]
    /\ tracker' = EmptySyncData
    /\ passPc' = "idle"
    /\ UNCHANGED <<fmDirs, fmFiles, ledgerFile, passIssues, passQueue, passNo, outputConfig,
                   clsVars, hashVars, syncVars, cacheVars, keyVars, ghVars, retryVars,
                   safeVars, rateVars, parVars>>

\* the process dies inside writeIssues
Crash ==
    /\ passPc # "idle"
    /\ passLog' = [passLog EXCEPT !.outcome = "crashed"]
    /\ tracker' = EmptySyncData
    /\ passQueue' = <<>>
    /\ passPc' = "idle"
    /\ UNCHANGED <<fmDirs, fmFiles, ledgerFile, passIssues, passNo, outputConfig,
                   clsVars, hashVars, syncVars, cacheVars, keyVars, ghVars, retryVars,
                   safeVars, rateVars, parVars>>

\* the reorganize command: reorganizeFilesByState(issues, repo, dryRun)
ReorganizeFilesByState ==
    /\ passPc = "idle"
    /\ passNo < MaxPasses
    /\ \E list \in PassFetchedLists, dryRun \in BOOLEAN, failing \in Failing :
          LET result == reorganizeFilesByState(list, Tree(fmDirs, fmFiles), outputConfig,
                                               dryRun, failing)
          IN  /\ passIssues' = list
              /\ fmDirs' = result.tree.dirs
              /\ fmFiles' = result.tree.files
              /\ passLog' = [NoLog EXCEPT !.op = "reorganize", !.outcome = "success",
                                          !.dryRun = dryRun,
                                          !.failing = failing,
                                          !.movedCount = result.movedCount,
                                          !.treeBefore = Tree(fmDirs, fmFiles)]
    /\ passNo' = passNo + 1
    /\ UNCHANGED <<ledgerFile, tracker, passQueue, passPc, outputConfig,
                   clsVars, hashVars, syncVars, cacheVars, keyVars, ghVars, retryVars,
                   safeVars, rateVars, parVars>>

\* processRepository of sync --dry-run: after the fetch it prints what
\* would be synced and returns, before writeIssues is called
DryRunSync ==
    /\ passPc = "idle"
    /\ passNo < MaxPasses
    /\ \E list \in PassFetchedLists, options \in SyncOptions :
          /\ ~processRepository_writes(options)
          /\ passIssues' = list
          /\ passLog' = [NoLog EXCEPT !.op = "sync", !.outcome = "dryrun",
                                      !.dryRun = options.dryRun,
                                      !.treeBefore = Tree(fmDirs, fmFiles),
                                      !.ledgerAtStart = ledgerFile]
    /\ passNo' = passNo + 1
    /\ UNCHANGED <<fmDirs, fmFiles, ledgerFile, tracker, passQueue, passPc, outputConfig,
                   clsVars, hashVars, syncVars, cacheVars, keyVars, ghVars, retryVars,
                   safeVars, rateVars, parVars>>

PassNext ==
    \/ StartPass
    \/ DryRunSync
    \/ PerformIncrementalSync
    \/ CleanOutputDirectory
    \/ EnterWrite
    \/ WriteIssue
    \/ WriteIssueFails
    \/ ThrowToCaller
    \/ SaveSyncData
    \/ SaveSyncDataFails
    \/ Crash
    \/ ReorganizeFilesByState

(***************************************************************************)
(* Pass claims                                                             *)
(***************************************************************************)
\* performIncrementalSync of the sync command has returned
SyncStepDone == passLog.op = "sync" /\ passLog.synced

\* the directory holds no file
EmptyDir(dir) == ~\E f \in fmFiles : f.dir = dir

Reorganized == passLog.op = "reorganize"

\* C15: a dry run of reorganizeFilesByState reports the move count that a
\* run with dryRun = false performs on the same tree, and leaves the tree
\* as it was: no file moved, no directory created or removed.
C15_DryRunNonMutation ==
    (Reorganized /\ passLog.dryRun) =>
        /\ Tree(fmDirs, fmFiles) = passLog.treeBefore
        /\ passLog.movedCount =
               reorganizeFilesByState(passIssues, passLog.treeBefore, outputConfig,
                                      FALSE, {}).movedCount

\* C15 witness: a dry run that reported a move which would also have
\* removed a directory
C15_Witness ==
    /\ Reorganized
    /\ passLog.dryRun
    /\ passLog.movedCount >= 1
    /\ reorganizeFilesByState(passIssues, passLog.treeBefore, outputConfig,
                              FALSE, {}).tree.dirs # fmDirs

\* the identifier a filename encodes: leading digits followed by a hyphen
EncodedNumbers(name) ==
    {n \in 0..99 : \E k \in 1..Len(name) :
        /\ SubSeq(name, 1, k) = toString(n)
        /\ Len(name) > k
        /\ name[k + 1] = "-"}

\* C16: reorganizeFilesByState leaves in place every artifact file whose
\* filename-encoded identifier is not in the fetched item set.
C16_UnfetchedUntouched ==
    Reorganized =>
        \A f \in passLog.treeBefore.files :
            EncodedNumbers(f.name) \cap Numbers(passIssues) = {} => f \in fmFiles

\* C16 witness: a run that moved a file while the tree held the artifact
\* of an item that was not fetched
C16_Witness ==
    /\ Reorganized
    /\ ~passLog.dryRun
    /\ passLog.movedCount >= 1
    /\ \E f \in passLog.treeBefore.files :
          /\ EncodedNumbers(f.name) # {}
          /\ EncodedNumbers(f.name) \cap Numbers(passIssues) = {}
          /\ f \in fmFiles

\* writeIssues is between the return of performIncrementalSync and its own
\* return or throw: syncTracker.syncData is the in-memory ledger
InPass == passLog.op = "sync" /\ passPc \in {"clean", "categorize", "write", "catch"}

\* C17: in no state of a pass does the in-memory ledger hold the current
\* fingerprint of an item of new or updated whose artifact write of this
\* pass failed or has not happened: an entry with the item's fingerprint
\* means the write succeeded and the recorded file is on disk.
C17_MarkedOnlyAfterWrite ==
    InPass =>
        \A i \in 1..Len(passIssues) :
            LET issue == passIssues[i]
                key == toString(issue.number)
            IN  (/\ issue.number \in passLog.new \cup passLog.updated
                 /\ hasEntry(tracker, key)
                 /\ tracker.issues[key].hash = generateIssueHash(issue))
                => /\ issue.number \in passLog.written
                   /\ issue.number \notin passLog.writeFailed
                   /\ tracker.issues[key].filePath \in fmFiles

\* C17 witness: the write of one item has succeeded and the item is
\* marked, the write of the next item has failed and the item is not
C17_Witness ==
    /\ InPass
    /\ passPc = "catch"
    /\ passLog.written # {}
    /\ passLog.writeFailed # {}
    /\ \A n \in passLog.written : hasEntry(tracker, toString(n))
    /\ \A n \in passLog.writeFailed : n \in passLog.updated

\* the entries that the pass has to leave in the ledger: for every fetched
\* item the entry with its current fingerprint
HoldsFetched(data) ==
    \A i \in 1..Len(passIssues) :
        /\ hasEntry(data, toString(passIssues[i].number))
        /\ data.issues[toString(passIssues[i].number)].hash = generateIssueHash(passIssues[i])

C19_FailedParseIsEmptyLedger ==
    (passLog.op = "sync" /\ passLog.loadFailed) =>
        /\ passPc = "sync" => tracker = EmptySyncData
        /\ SyncStepDone =>
               /\ passLog.new = Numbers(passIssues)
               /\ passLog.updated = {}
               /\ passLog.unchanged = {}
               /\ passLog.deleted = {}
        /\ (passPc = "idle" /\ passLog.outcome = "threw") => passLog.writeFailed # {}

\* C19 witness: the ledger file held entries, its parse failed, and the
\* pass classified the fetched items as new and saved
C19_Witness ==
    /\ passLog.op = "sync"
    /\ passLog.loadFailed
    /\ passLog.ledgerAtStart # <<>>
    /\ DOMAIN passLog.ledgerAtStart[1].issues # {}
    /\ passLog.new # {}
    /\ passLog.outcome = "success"

\* C20: a pass whose ledger save fails does not complete as a success.
C20_SaveFailureSurfaces ==
    (passLog.op = "sync" /\ passLog.saveFailed) => passLog.outcome # "success"

\* C21: failures are isolated per item: after a pass in which the artifact
\* write of an item failed, the pass has not been aborted, and every other
\* item of new or updated has been written and marked processed.
C21_FailureIsolatedPerItem ==
    (passLog.op = "sync" /\ passPc = "idle" /\ passLog.writeFailed # {}
        /\ passLog.outcome # "crashed") =>
        /\ passLog.outcome = "success"
        /\ (passLog.new \cup passLog.updated) \ passLog.writeFailed \subseteq passLog.written

\* C22: during the write loop the ledger entry of every item marked in this
\* pass holds the item's current fingerprint, the path of its artifact, the
\* derived category of the item and the current timestamp.
C22_EntryHoldsCategory ==
    (InPass /\ passPc = "write") =>
        \A i \in 1..Len(passIssues) :
            LET issue == passIssues[i]
                key == toString(issue.number)
            IN  issue.number \in passLog.written =>
                    /\ hasEntry(tracker, key)
                    /\ tracker.issues[key].hash = generateIssueHash(issue)
                    /\ tracker.issues[key].filePath \in fmFiles
                    /\ tracker.issues[key].lastProcessed = passNo
                    /\ tracker.issues[key].state = categorizeIssue(issue)

\* the state right after performIncrementalSync has returned
JustSynced ==
    /\ SyncStepDone
    /\ passPc \in {"clean", "categorize"}
    /\ ~passLog.cleaned
    /\ passLog.written = {}

\* C23: relocation never fails the pass.  An item whose recorded file is
\* not on disk is skipped; a move that raises is caught, the file is still
\* at its previous location when the step returns, and the other moves that
\* are due are made; a failed move of handleIssueStateChange leaves the
\* file in place and the item is written all the same; and a pass only
\* throws when an artifact write failed.
C23_RelocationNeverFailsPass ==
    SyncStepDone =>
        /\ {r.number : r \in passLog.relocated}
               = {r.number : r \in {d \in passLog.due : d.from \notin passLog.failing}}
        /\ {r.number : r \in passLog.relocated} \cap passLog.missing = {}
        /\ JustSynced =>
               /\ \A r \in passLog.due : r.from \in passLog.failing => r.from \in fmFiles
               /\ \A r \in passLog.due : r.from \notin passLog.failing => r.to \in fmFiles
        /\ \A n \in passLog.handleFailed :
               /\ n \in passLog.written
               /\ passLog.ledgerAtStart[1].issues[toString(n)].filePath \in fmFiles
        /\ (passPc = "idle" /\ passLog.outcome = "threw") => passLog.writeFailed # {}

\* C23 witness: a pass has succeeded in which the move of item 1 raised an
\* error and item 12 was written
C23_Witness ==
    /\ passLog.op = "sync"
    /\ passLog.outcome = "success"
    /\ \E r \in passLog.due : r.number = 1 /\ r.from \in passLog.failing
    /\ 12 \in passLog.written

\* C24: after cleanupDeletedIssues, for every deleted identifier either its
\* entry is gone and its recorded file is not on disk, or the deletion of
\* the file failed and its entry is still there.
C24_EntryRemovedOnlyWhenFileGone ==
    (passLog.op = "sync" /\ passLog.cleanup # <<>>) =>
        LET call == passLog.cleanup[1]
        IN  \A i \in 1..Len(call.deleted) :
                LET deleted == call.deleted[i]
                    key == toString(deleted.number)
                IN  \/ /\ ~hasEntry(call.data, key)
                       /\ deleted.filePath \notin call.disk
                    \/ /\ hasEntry(call.data, key)
                       /\ deleted.filePath \in passLog.failing
                       /\ deleted.filePath \in call.disk

\* C24 witness: cleanupDeletedIssues has run on a deleted issue whose file
\* could not be unlinked
C24_Witness ==
    /\ passLog.op = "sync"
    /\ passLog.cleanup # <<>>
    /\ \E i \in 1..Len(passLog.cleanup[1].deleted) :
          /\ passLog.cleanup[1].deleted[i].filePath \in passLog.failing
          /\ hasEntry(passLog.cleanup[1].data, toString(passLog.cleanup[1].deleted[i].number))

\* C25: a sync with --dry-run writes, moves and deletes no artifact and
\* neither changes nor saves the ledger.
C25_DryRunSyncNonMutation ==
    (passLog.op = "sync" /\ passLog.dryRun) =>
        /\ Tree(fmDirs, fmFiles) = passLog.treeBefore
        /\ ledgerFile = passLog.ledgerAtStart
        /\ tracker = EmptySyncData
        /\ passLog.saves = 0
        /\ passLog.written = {}

\* C25 witness: a dry run on an output directory whose ledger holds an
\* issue that is not fetched any more and an issue that changed category
C25_Witness ==
    /\ passLog.op = "sync"
    /\ passLog.dryRun
    /\ passLog.outcome = "dryrun"
    /\ ledgerFile # <<>>
    /\ getChangedIssues(ledgerFile[1], passIssues).deleted # <<>>
    /\ fmFiles # {}

\* C27: after a reorganization with dryRun = false in which no rename
\* raised an error, every artifact file in a category directory whose
\* filename encodes a fetched identifier is under the directory of that
\* item's category, and no category directory is empty.
C27_ReorganizePostcondition ==
    (Reorganized /\ ~passLog.dryRun /\ passLog.failing = {}) =>
        /\ \A f \in fmFiles :
               f.dir \in {"active", "todo", "done", "blocked"} =>
                   \A i \in 1..Len(passIssues) :
                       passIssues[i].number \in EncodedNumbers(f.name) =>
                           f.dir = categorizeIssue(passIssues[i])
        /\ \A d \in fmDirs \cap {"active", "todo", "done", "blocked"} : ~EmptyDir(d)

\* C27 witness: a reorganization has moved a file and removed the
\* directory it left empty
C27_Witness ==
    /\ Reorganized
    /\ ~passLog.dryRun
    /\ passLog.failing = {}
    /\ passLog.movedCount >= 1
    /\ passLog.treeBefore.dirs \ fmDirs # {}

IsIssuesParams(params) ==
    /\ Len(params.props) = 3
    /\ {params.props[i].key : i \in 1..3} = {K_owner, K_repo, K_options}

\* C29: two getIssues requests to the same repository whose filter options
\* differ get different keys from generateCacheKey('issues', {owner, repo,
\* options}).
C29_FiltersNeverShareKey ==
    (/\ keyPc = "keyed"
     /\ keyOfA[1].prefix = "issues"
     /\ IsIssuesParams(keyParamsA) /\ IsIssuesParams(keyParamsB)
     /\ getProperty(keyParamsA, K_owner) = getProperty(keyParamsB, K_owner)
     /\ getProperty(keyParamsA, K_repo) = getProperty(keyParamsB, K_repo)
     /\ Unordered(getProperty(keyParamsA, K_options))
            # Unordered(getProperty(keyParamsB, K_options)))
        => keyOfA # keyOfB

(***************************************************************************)
(* GitHubClient.getIssueComments and createIssueComment (src/src/github.js)*)
(* on the client's CacheManager.  A comment list is the number of its      *)
(* comments: comments are only added, so the list of an issue is 1..n.     *)
(***************************************************************************)
MaxComments == 2        \* comments an issue gets
MaxGithubTime == 3      \* last clock value of the GitHubClient runs

K_issueNumber == <<"i", "s", "s", "u", "e", "N", "u", "m", "b", "e", "r">>
K_sort == <<"s", "o", "r", "t">>

\* the issues commented on; a number is serialized by its digits
GhIssueNumbers == {"1", "12"}

\* the options argument of getIssueComments: omitted ({}), or a sort order
GhOptionsPool == {Obj(<<>>), Obj(<<Prop(K_sort, Str("updated"))>>)}

\* the params of the key getIssueComments reads and writes:
\* { owner, repo, issueNumber, options }
getIssueComments_params(owner, repo, issueNumber, options) ==
    Obj(<<Prop(K_owner, Str(owner)), Prop(K_repo, Str(repo)),
          Prop(K_issueNumber, Str(issueNumber)), Prop(K_options, options)>>)

\* the params of the key createIssueComment deletes:
\* { owner, repo, issueNumber }
createIssueComment_params(owner, repo, issueNumber) ==
    Obj(<<Prop(K_owner, Str(owner)), Prop(K_repo, Str(repo)),
          Prop(K_issueNumber, Str(issueNumber))>>)

NoComments == [n \in GhIssueNumbers |-> 0]

GhIdle ==
    /\ ghComments = NoComments
    /\ ghCacheDir = NoFiles
    /\ ghClock = 0
    /\ ghLast = <<>>
    /\ ghOwn = NoComments

GhInit == GhIdle

\* getIssueComments(owner, repo, issueNumber, options) with useCache: the
\* cached list on a hit; else the list GitHub returns, cached by set (which
\* may fail to write and only warns); or listComments throws
GetIssueComments ==
    /\ \E issueNumber \in GhIssueNumbers, options \in GhOptionsPool :
          LET cacheKey == generateCacheKey("comments",
                              getIssueComments_params("zaki", "web", issueNumber, options))
              g == get(ghCacheDir, cacheKey, ghClock)
          IN  IF g.returned # <<>>
              THEN /\ ghCacheDir' = g.dir
                   /\ ghLast' = <<[op |-> "getIssueComments", issueNumber |-> issueNumber,
                                   cached |-> TRUE, threw |-> FALSE,
                                   returned |-> g.returned[1]]>>
              ELSE \/ \E writable \in BOOLEAN :
                        \E s \in set(g.dir, cacheKey, ghComments[issueNumber], defaultTTL,
                                     ghClock, writable) :
                           /\ ghCacheDir' = s.dir
                           /\ ghLast' = <<[op |-> "getIssueComments",
                                           issueNumber |-> issueNumber,
                                           cached |-> FALSE, threw |-> FALSE,
                                           returned |-> ghComments[issueNumber]]>>
                   \/ /\ ghCacheDir' = g.dir
                      /\ ghLast' = <<[op |-> "getIssueComments", issueNumber |-> issueNumber,
                                      cached |-> FALSE, threw |-> TRUE, returned |-> 0]>>
    /\ UNCHANGED <<ghComments, ghClock, ghOwn,
                   clsVars, hashVars, syncVars, cacheVars, keyVars, fmVars, retryVars,
                   safeVars, rateVars, parVars>>

\* createIssueComment(owner, repo, issueNumber, body): the comment is
\* created and the key of { owner, repo, issueNumber } is deleted from the
\* cache; or createComment throws and the cache is not touched
CreateIssueComment ==
    /\ \E issueNumber \in GhIssueNumbers :
          /\ ghComments[issueNumber] < MaxComments
          /\ \/ LET cacheKey == generateCacheKey("comments",
                                    createIssueComment_params("zaki", "web", issueNumber))
                IN  /\ ghComments' = [ghComments EXCEPT ![issueNumber] = @ + 1]
                    /\ ghCacheDir' = withoutFile(ghCacheDir, cacheKey)
                    /\ ghOwn' = [ghOwn EXCEPT ![issueNumber] = ghComments[issueNumber] + 1]
                    /\ ghLast' = <<[op |-> "createIssueComment", issueNumber |-> issueNumber,
                                    cached |-> FALSE, threw |-> FALSE,
                                    returned |-> ghComments[issueNumber] + 1]>>
             \/ /\ ghLast' = <<[op |-> "createIssueComment", issueNumber |-> issueNumber,
                                cached |-> FALSE, threw |-> TRUE, returned |-> 0]>>
                /\ UNCHANGED <<ghComments, ghCacheDir, ghOwn>>
    /\ UNCHANGED <<ghClock,
                   clsVars, hashVars, syncVars, cacheVars, keyVars, fmVars, retryVars,
                   safeVars, rateVars, parVars>>

\* somebody else comments on the issue on GitHub
OtherComment ==
    /\ \E issueNumber \in GhIssueNumbers :
          /\ ghComments[issueNumber] < MaxComments
          /\ ghComments' = [ghComments EXCEPT ![issueNumber] = @ + 1]
    /\ ghLast' = <<>>
    /\ UNCHANGED <<ghCacheDir, ghClock, ghOwn,
                   clsVars, hashVars, syncVars, cacheVars, keyVars, fmVars, retryVars,
                   safeVars, rateVars, parVars>>

\* time passes
GhTick ==
    /\ ghClock < MaxGithubTime
    /\ ghClock' = ghClock + 1
    /\ ghLast' = <<>>
    /\ UNCHANGED <<ghComments, ghCacheDir, ghOwn,
                   clsVars, hashVars, syncVars, cacheVars, keyVars, fmVars, retryVars,
                   safeVars, rateVars, parVars>>

GhNext == GetIssueComments \/ CreateIssueComment \/ OtherComment \/ GhTick

\* C30: a getIssueComments answered from the cache returns a list that
\* holds every comment the issue had when the last successful
\* createIssueComment for it returned, so never a list cached before that
\* comment was created.
C30_CreateInvalidatesComments ==
    (/\ ghLast # <<>>
     /\ ghLast[1].op = "getIssueComments"
     /\ ghLast[1].cached)
        => ghLast[1].returned >= ghOwn[ghLast[1].issueNumber]

(***************************************************************************)
(* ErrorHandler.retry (errorHandler.js in docs/github_issues_sync_spec.md) *)
(***************************************************************************)
MaxRetries == 4         \* largest maxRetries argument
MaxRetryDelay == 2      \* largest this.retryDelay, in units of time

\* the errors operation() throws and the results it returns
RetryErrors == {"timeout", "reset"}
RetryResults == {"response"}

\* Math.pow(base, exponent) for a natural exponent
RECURSIVE Math_pow(_, _)
Math_pow(base, exponent) ==
    IF exponent = 0 THEN 1 ELSE base * Math_pow(base, exponent - 1)

\* a delay that does not grow with the attempts
delay_constant(base, k) == base

\* const delay = this.retryDelay * Math.pow(2, attempt - 1)
delay(base, k) == base * Math_pow(2, k - 1)

RetryIdle ==
    /\ maxRetries = 0
    /\ retryDelay = 0
    /\ attempt = 0
    /\ lastError = <<>>
    /\ retryCalls = <<>>
    /\ retryWaits = <<>>
    /\ retryOutcome = <<>>
    /\ retryPc = "idle"

\* retry(operation, context, maxRetries) is entered: let lastError; attempt = 1
RetryInit ==
    /\ maxRetries \in 0..MaxRetries
    /\ retryDelay \in 1..MaxRetryDelay
    /\ attempt = 1
    /\ lastError = <<>>
    /\ retryCalls = <<>>
    /\ retryWaits = <<>>
    /\ retryOutcome = <<>>
    /\ retryPc = "call"

\* return await operation(): the attempt succeeds
OperationReturns ==
    /\ retryPc = "call"
    /\ attempt <= maxRetries
    /\ \E result \in RetryResults :
          /\ retryCalls' = Append(retryCalls, [ok |-> TRUE, value |-> result])
          /\ retryOutcome' = <<[kind |-> "return", value |-> <<result>>]>>
    /\ retryPc' = "done"
    /\ UNCHANGED <<maxRetries, retryDelay, attempt, lastError, retryWaits,
                   clsVars, hashVars, syncVars, cacheVars, keyVars, fmVars, ghVars,
                   safeVars, rateVars, parVars>>

\* operation() throws: the catch keeps the error, rethrows it on the last
\* attempt and else starts the timer of the backoff delay
OperationThrows ==
    /\ retryPc = "call"
    /\ attempt <= maxRetries
    /\ \E error \in RetryErrors :
          /\ retryCalls' = Append(retryCalls, [ok |-> FALSE, value |-> error])
          /\ lastError' = <<error>>
          /\ IF attempt = maxRetries
             THEN /\ retryOutcome' = <<[kind |-> "throw", value |-> <<error>>]>>
                  /\ retryPc' = "done"
             ELSE /\ retryOutcome' = <<>>
                  /\ retryPc' = "wait"
    /\ UNCHANGED <<maxRetries, retryDelay, attempt, retryWaits,
                   clsVars, hashVars, syncVars, cacheVars, keyVars, fmVars, ghVars,
                   safeVars, rateVars, parVars>>

\* await new Promise(resolve => setTimeout(resolve, delay)); attempt++
BackoffElapses ==
    /\ retryPc = "wait"
    /\ retryWaits' = Append(retryWaits, delay(retryDelay, attempt))
    /\ attempt' = attempt + 1
    /\ retryPc' = "call"
    /\ UNCHANGED <<maxRetries, retryDelay, lastError, retryCalls, retryOutcome,
                   clsVars, hashVars, syncVars, cacheVars, keyVars, fmVars, ghVars,
                   safeVars, rateVars, parVars>>

\* the loop condition fails: throw lastError
ThrowLastError ==
    /\ retryPc = "call"
    /\ attempt > maxRetries
    /\ retryOutcome' = <<[kind |-> "throw", value |-> lastError]>>
    /\ retryPc' = "done"
    /\ UNCHANGED <<maxRetries, retryDelay, attempt, lastError, retryCalls, retryWaits,
                   clsVars, hashVars, syncVars, cacheVars, keyVars, fmVars, ghVars,
                   safeVars, rateVars, parVars>>

RetryNext == OperationReturns \/ OperationThrows \/ BackoffElapses \/ ThrowLastError

\* what holds at every point of a retry call: the invocations, the waits
\* between them and the outcome
RetryContract ==
    LET n == Len(retryCalls) IN
    /\ n <= maxRetries
    /\ \A i \in 1..(n - 1) : ~retryCalls[i].ok
    /\ retryPc # "done" => (retryOutcome = <<>> /\ \A i \in 1..n : ~retryCalls[i].ok)
    /\ Len(retryWaits) = (IF retryPc = "call" \/ n = 0 THEN n ELSE n - 1)
    /\ \A k \in 1..Len(retryWaits) : retryWaits[k] = retryDelay * Math_pow(2, k - 1)
    /\ retryPc = "done" =>
          /\ retryOutcome # <<>>
          /\ IF n > 0 /\ retryCalls[n].ok
             THEN retryOutcome[1] = [kind |-> "return", value |-> <<retryCalls[n].value>>]
             ELSE /\ n = maxRetries
                  /\ retryOutcome[1].kind = "throw"
                  /\ n > 0 => retryOutcome[1].value = <<retryCalls[n].value>>

\* C28: retry invokes the operation at most maxRetries times, makes no
\* attempt after a success and returns its result, rethrows the last error
\* when all maxRetries attempts failed, waits retryDelay * 2^(k-1) between
\* attempt k and attempt k+1, and ends when every invocation ends.
C28_RetryBoundedBackoff == []RetryContract /\ <>(retryPc = "done")

\* C28 witness: four attempts failed with waits 2, 4, 8 between them and
\* the last error was rethrown
C28_Witness ==
    /\ retryPc = "done"
    /\ Len(retryCalls) = 4
    /\ maxRetries = 4
    /\ retryWaits = <<2, 4, 8>>
    /\ retryOutcome = <<[kind |-> "throw", value |-> <<retryCalls[4].value>>]>>

\* C31: in a pass whose fetch failed on every attempt, no artifact file
\* that the ledger records is removed from disk and the persisted ledger
\* loses no entry.
C31_FetchFailureDeletesNothing ==
    (passLog.op = "sync" /\ passLog.fetchFailed /\ passLog.ledgerAtStart # <<>>) =>
        /\ \A k \in DOMAIN passLog.ledgerAtStart[1].issues :
              passLog.ledgerAtStart[1].issues[k].filePath \in passLog.treeBefore.files
                  => passLog.ledgerAtStart[1].issues[k].filePath \in fmFiles
        /\ ledgerFile = passLog.ledgerAtStart

\* C37: when a pass has returned, the persisted ledger has no entry for an
\* issue that was not fetched and whose artifact the pass deleted.
C37_DeletedLeaveLedger ==
    (/\ passLog.op = "sync"
     /\ passPc = "idle"
     /\ passLog.outcome \in {"success", "skipped"}
     /\ passLog.cleanup # <<>>) =>
        \A n \in passLog.deleted :
            (/\ passLog.ledgerAtStart[1].issues[toString(n)].filePath
                    \in passLog.treeBefore.files
             /\ passLog.ledgerAtStart[1].issues[toString(n)].filePath
                    \notin passLog.cleanup[1].disk)
                => (ledgerFile = <<>> \/ ~hasEntry(ledgerFile[1], toString(n)))

\* the artifact files whose filename starts with the number of an issue
ArtifactsOf(number) == {f \in fmFiles : number \in EncodedNumbers(f.name)}

\* the pass that has just ended succeeded without any failure: fetch,
\* ledger load, unlink, rename, write and save all went through
PassSucceededCleanly ==
    /\ passLog.op = "sync"
    /\ passPc = "idle"
    /\ passLog.outcome = "success"
    /\ ~passLog.saveFailed
    /\ ~passLog.loadFailed
    /\ ~passLog.fetchFailed
    /\ passLog.failing = {}
    /\ passLog.handleFailed = {}
    /\ passLog.writeFailed = {}

\* C32: after two successful incremental passes with group_by_state on (the
\* first of them saved the ledger the second started from), the output tree
\* holds exactly one artifact file for each fetched issue.
C32_OneArtifactPerIssue ==
    (/\ PassSucceededCleanly
     /\ passNo = 2
     /\ passLog.ledgerAtStart # <<>>
     /\ outputConfig.group_by_state) =>
        \A i \in 1..Len(passIssues) : Cardinality(ArtifactsOf(passIssues[i].number)) = 1

\* C33: with clean_before_sync set, after a successful incremental pass
\* every fetched issue, the unchanged ones included, has its artifact file
\* on disk at the path the ledger records.
C33_CleanKeepsFetchedArtifacts ==
    (PassSucceededCleanly /\ outputConfig.clean_before_sync) =>
        \A i \in 1..Len(passIssues) :
            /\ hasEntry(ledgerFile[1], toString(passIssues[i].number))
            /\ ledgerFile[1].issues[toString(passIssues[i].number)].filePath \in fmFiles

\* C39: the two classifiers agree: every issue of a list is put by
\* categorizeIssuesByState in the list of the category that categorizeIssue
\* gives it, and in no other.
C39_ClassifiersAgree ==
    clsPc = "classified" =>
        \A i \in 1..Len(clsIssues) :
            ListsHolding(clsByState, clsIssues[i]) = {clsSingle[i]}

\* the state and labels of the issue a ledger entry was marked with, read
\* from the content its hash stands for
MarkedIssue(entry) ==
    [state |-> entry.hash.sha256.state,
     labels |-> [present |-> ~entry.hash.sha256.labels.omitted,
                 list |-> [i \in 1..Len(entry.hash.sha256.labels.v) |->
                              [name |-> entry.hash.sha256.labels.v[i]]]]]

\* every entry of a ledger records a path under the category of the issue
\* it was marked with
PathsFollowMarkedCategory(data) ==
    \A k \in DOMAIN data.issues :
        data.issues[k].filePath.dir = categorizeIssue(MarkedIssue(data.issues[k]))

\* C38: with group_by_state on, in every state of incremental passes that
\* started from an empty ledger, each ledger entry (in memory and persisted)
\* records a path whose parent directory is the category categorizeIssue
\* gives the issue as it was when marked; and performIncrementalSync
\* relocates no issue of the unchanged partition.
C38_PathFollowsMarkedCategory ==
    outputConfig.group_by_state =>
        /\ PathsFollowMarkedCategory(tracker)
        /\ ledgerFile # <<>> => PathsFollowMarkedCategory(ledgerFile[1])
        /\ SyncStepDone =>
               {r.number : r \in passLog.relocated} \cap passLog.unchanged = {}

\* C38 witness: performIncrementalSync has returned in a pass where issue 1
\* is unchanged, recorded under the directory of its category with its
\* file on disk, and issue 12 is new
C38_Witness ==
    /\ outputConfig.group_by_state
    /\ JustSynced
    /\ passLog.unchanged = {1}
    /\ passLog.new = {12}
    /\ hasEntry(tracker, toString(1))
    /\ tracker.issues[toString(1)].filePath.dir = categorizeIssue(passIssues[1])
    /\ tracker.issues[toString(1)].filePath \in fmFiles

(***************************************************************************)
(* GitHubClient.safeGetIssues (src/src/github.js): getIssues run by        *)
(* ErrorHandler.safeExecute and retry (errorHandler.js in                  *)
(* docs/github_issues_sync_spec.md) with the fallback [].                  *)
(***************************************************************************)
MaxSafeRetries == 3     \* largest errorHandler.maxRetries of the client

\* JavaScript values safeGetIssues may resolve to
Undefined == [type |-> "undefined", items |-> <<>>]
Array(items) == [type |-> "array", items |-> items]

\* an error thrown inside the try of getIssues: status 0 and code "" stand
\* for a missing property; rateLimit is message.includes('rate limit');
\* reset tells where the x-ratelimit-reset header puts waitTime: "none" (no
\* header), "soon" (0 < waitTime < 3600000) or "late"
ApiError(status, code, rateLimit, reset) ==
    [status |-> status, code |-> code, rateLimit |-> rateLimit, reset |-> reset]

\* the Error objects handleApiError creates: a message, no status, no code
NewError == ApiError(0, "", FALSE, "none")

ApiErrors ==
    {ApiError(s, "", FALSE, "none") : s \in {401, 404, 422, 429, 503}}
        \cup {ApiError(403, "", TRUE, w) : w \in {"none", "soon", "late"}}
        \cup {ApiError(403, "", FALSE, "none")}
        \cup {ApiError(0, c, FALSE, "none") : c \in {"ECONNRESET", ""}}

\* the lists of issues GitHub or the cache may answer with
SafeIssueLists == {<<>>, <<1>>, <<1, 12>>}

\* ErrorHandler.isRetryableError
isRetryableError(error) ==
    \/ error.status # 0 /\ error.status \in {429, 500, 502, 503, 504}
    \/ error.code # "" /\ error.code \in {"ENOTFOUND", "ECONNRESET", "ETIMEDOUT", "ECONNREFUSED"}

\* ErrorHandler.handleApiError: it throws, or returns after the wait of a
\* rate-limited 403
handleApiError(error) ==
    CASE error.status = 401 -> [kind |-> "throw", error |-> NewError]
      [] error.status = 403 ->
            IF error.rateLimit /\ error.reset = "soon"
            THEN [kind |-> "return", error |-> NewError]
            ELSE [kind |-> "throw", error |-> NewError]
      [] error.status = 404 -> [kind |-> "throw", error |-> NewError]
      [] error.status = 422 -> [kind |-> "throw", error |-> NewError]
      [] error.status = 429 -> [kind |-> "throw", error |-> error]
      [] OTHER -> IF isRetryableError(error)
                  THEN [kind |-> "throw", error |-> error]
                  ELSE [kind |-> "throw", error |-> NewError]

\* the catch of getIssues: a retryable error is rethrown, any other goes to
\* handleApiError; when that returns, getIssues ends without a return
\* statement and resolves to undefined
getIssues_catch(error) ==
    IF isRetryableError(error) THEN [kind |-> "throw", value |-> Undefined]
    ELSE IF handleApiError(error).kind = "return"
         THEN [kind |-> "return", value |-> Undefined]
         ELSE [kind |-> "throw", value |-> Undefined]

\* the catch of safeExecute: if (fallback) return fallback; an array is
\* truthy, also the empty one
safeExecute_catch(fallback) ==
    IF fallback.type = "array"
    THEN [kind |-> "return", value |-> fallback]
    ELSE [kind |-> "throw", value |-> Undefined]

SafeIdle ==
    /\ seMaxRetries = 0
    /\ seAttempt = 0
    /\ seCalls = <<>>
    /\ seResult = <<>>
    /\ sePc = "idle"

\* safeGetIssues is called: safeExecute enters retry, attempt = 1
SafeInit ==
    /\ seMaxRetries \in 1..MaxSafeRetries
    /\ seAttempt = 1
    /\ seCalls = <<>>
    /\ seResult = <<>>
    /\ sePc = "call"

\* getIssues returns the cached or the fetched issues, and retry and
\* safeExecute return them
GetIssuesReturns ==
    /\ sePc = "call"
    /\ \E issues \in SafeIssueLists :
          /\ seCalls' = Append(seCalls, [failed |-> FALSE, error |-> NewError])
          /\ seResult' = <<Array(issues)>>
    /\ sePc' = "done"
    /\ UNCHANGED <<seMaxRetries, seAttempt,
                   clsVars, hashVars, syncVars, cacheVars, keyVars, fmVars, ghVars, retryVars,
                   rateVars, parVars>>

\* an error is thrown inside the try of getIssues.  When its catch
\* returns, retry returns undefined; when it throws, retry waits and tries
\* again, or after the last attempt throws into the catch of safeExecute
GetIssuesFails ==
    /\ sePc = "call"
    /\ \E error \in ApiErrors :
          /\ seCalls' = Append(seCalls, [failed |-> TRUE, error |-> error])
          /\ IF getIssues_catch(error).kind = "return"
             THEN /\ seResult' = <<getIssues_catch(error).value>>
                  /\ sePc' = "done"
             ELSE IF seAttempt = seMaxRetries
             THEN /\ seResult' = <<safeExecute_catch(Array(<<>>)).value>>
                  /\ sePc' = "done"
             ELSE /\ seResult' = <<>>
                  /\ sePc' = "wait"
    /\ UNCHANGED <<seMaxRetries, seAttempt,
                   clsVars, hashVars, syncVars, cacheVars, keyVars, fmVars, ghVars, retryVars,
                   rateVars, parVars>>

\* the backoff timer of retry fires: attempt++
SafeBackoffElapses ==
    /\ sePc = "wait"
    /\ seAttempt' = seAttempt + 1
    /\ sePc' = "call"
    /\ UNCHANGED <<seMaxRetries, seCalls, seResult,
                   clsVars, hashVars, syncVars, cacheVars, keyVars, fmVars, ghVars, retryVars,
                   rateVars, parVars>>

SafeNext == GetIssuesReturns \/ GetIssuesFails \/ SafeBackoffElapses

\* C34: under safeExecute a call that fails with an error for which
\* isRetryableError does not hold is the only and last attempt: no wait
\* and no further call follows it.
C34_NonRetryableAttemptedOnce ==
    \A i \in 1..Len(seCalls) :
        (seCalls[i].failed /\ ~isRetryableError(seCalls[i].error)) =>
            /\ i = 1
            /\ Len(seCalls) = 1
            /\ sePc = "done"

\* C35: safeGetIssues resolves to a list on every path: the issues, or
\* the fallback [].
C35_AlwaysResolvesToList ==
    sePc = "done" => seResult[1].type = "array"

(***************************************************************************)
(* GitHubClient.respectRateLimit (src/src/github.js) called by the         *)
(* repositories that processRepositoriesInParallel runs at the same time   *)
(* on one client.  A caller issues its upstream request when               *)
(* respectRateLimit returns.                                               *)
(***************************************************************************)
rateLimitDelay == 2     \* this.rateLimitDelay, in units of time
MaxCallers == 3         \* repositories processed at the same time
MaxRequests == 3        \* upstream requests of a run
MaxRateTime == 6        \* last clock value of the rate limit runs

RateCallers == 1..MaxCallers

RateIdle ==
    /\ rlNow = 0
    /\ lastRequestTime = 0
    /\ rlWaiting = <<>>
    /\ rlRequests = <<>>

\* a new client: lastRequestTime = 0, long before now
RateInit ==
    /\ rlNow = rateLimitDelay
    /\ lastRequestTime = 0
    /\ rlWaiting = [c \in RateCallers |-> <<>>]
    /\ rlRequests = <<>>

\* the calls of respectRateLimit that have not returned
RateAwaiting == {c \in RateCallers : rlWaiting[c] # <<>>}

\* respectRateLimit up to its await: with timeSinceLastRequest below
\* rateLimitDelay the caller sets a timer for the rest of the delay; else
\* it sets lastRequestTime, returns and the request goes out
RespectRateLimit ==
    /\ \E c \in RateCallers :
          /\ rlWaiting[c] = <<>>
          /\ Len(rlRequests) + Cardinality(RateAwaiting) < MaxRequests
          /\ LET timeSinceLastRequest == rlNow - lastRequestTime
                 waitTime == rateLimitDelay - timeSinceLastRequest
             IN  IF timeSinceLastRequest < rateLimitDelay
                 THEN /\ rlWaiting' = [rlWaiting EXCEPT ![c] = <<rlNow + waitTime>>]
                      /\ UNCHANGED <<lastRequestTime, rlRequests>>
                 ELSE /\ lastRequestTime' = rlNow
                      /\ rlRequests' = Append(rlRequests, rlNow)
                      /\ UNCHANGED rlWaiting
    /\ UNCHANGED <<rlNow,
                   clsVars, hashVars, syncVars, cacheVars, keyVars, fmVars, ghVars, retryVars,
                   safeVars, parVars>>

\* the timer of a waiting caller fires: this.lastRequestTime = Date.now(),
\* respectRateLimit returns and the request goes out
TimerFires ==
    /\ \E c \in RateAwaiting :
          /\ rlWaiting[c][1] <= rlNow
          /\ lastRequestTime' = rlNow
          /\ rlRequests' = Append(rlRequests, rlNow)
          /\ rlWaiting' = [rlWaiting EXCEPT ![c] = <<>>]
    /\ UNCHANGED <<rlNow,
                   clsVars, hashVars, syncVars, cacheVars, keyVars, fmVars, ghVars, retryVars,
                   safeVars, parVars>>

\* time passes, not beyond the time of a timer that is set
RateTick ==
    /\ rlNow < MaxRateTime
    /\ \A c \in RateAwaiting : rlWaiting[c][1] > rlNow
    /\ rlNow' = rlNow + 1
    /\ UNCHANGED <<lastRequestTime, rlWaiting, rlRequests,
                   clsVars, hashVars, syncVars, cacheVars, keyVars, fmVars, ghVars, retryVars,
                   safeVars, parVars>>

RateNext == RespectRateLimit \/ TimerFires \/ RateTick

\* C36: any two upstream requests issued through the client are at least
\* rateLimitDelay apart, also when the calls of respectRateLimit of several
\* repositories interleave at its await.
C36_RequestsSpaced ==
    \A i, j \in 1..Len(rlRequests) :
        i < j => rlRequests[j] - rlRequests[i] >= rateLimitDelay

(***************************************************************************)
(* processRepositoriesInParallel (src/src/cli.js).  concurrent_repos is    *)
(* read from the configuration as it is: an absent key gives undefined.    *)
(* A JavaScript number is [nan, n].                                        *)
(***************************************************************************)
MaxRepos == 3           \* most repositories of a configuration
MaxConcurrency == 3     \* largest concurrent_repos
MaxChunks == 4          \* chunks the process has memory for

Num(n) == [nan |-> FALSE, n |-> n]
NaN == [nan |-> TRUE, n |-> 0]

\* the repositories arguments: parallel processing is chosen for more than
\* one repository
ParRepositories == {[i \in 1..k |-> i] : k \in 2..MaxRepos}

\* performanceConfig.concurrent_repos: absent, or a number
ConcurrencyValues == {NaN} \cup {Num(n) : n \in 0..MaxConcurrency}

\* i += concurrency: undefined makes NaN
plus(a, b) == IF a.nan \/ b.nan THEN NaN ELSE Num(a.n + b.n)

\* i < repositories.length: false for NaN
lessThan(a, length) == ~a.nan /\ a.n < length

\* ToIntegerOrInfinity of a slice argument: NaN is 0
toInteger(a) == IF a.nan THEN 0 ELSE a.n

\* repositories.slice(i, i + concurrency)
slice(list, start, end) ==
    SubSeq(list, toInteger(start) + 1,
           IF toInteger(end) > Len(list) THEN Len(list) ELSE toInteger(end))

ParIdle ==
    /\ repositories = <<>>
    /\ concurrency = Num(0)
    /\ parI = Num(0)
    /\ chunks = <<>>
    /\ parChunkNo = 0
    /\ parRunning = {}
    /\ parResults = <<>>
    /\ parPc = "idle"

\* processRepositoriesInParallel is entered: chunks = [], i = 0
ParInit ==
    /\ repositories \in ParRepositories
    /\ concurrency \in ConcurrencyValues
    /\ parI = Num(0)
    /\ chunks = <<>>
    /\ parChunkNo = 0
    /\ parRunning = {}
    /\ parResults = <<>>
    /\ parPc = "chunking"

\* one turn of the chunking loop; the array of chunks cannot grow beyond
\* the memory of the process
PushChunk ==
    /\ parPc = "chunking"
    /\ lessThan(parI, Len(repositories))
    /\ IF Len(chunks) < MaxChunks
       THEN /\ chunks' = Append(chunks, slice(repositories, parI, plus(parI, concurrency)))
            /\ parI' = plus(parI, concurrency)
            /\ parPc' = "chunking"
       ELSE /\ parPc' = "exhausted"
            /\ UNCHANGED <<chunks, parI>>
    /\ UNCHANGED <<repositories, concurrency, parChunkNo, parRunning, parResults,
                   clsVars, hashVars, syncVars, cacheVars, keyVars, fmVars, ghVars, retryVars,
                   safeVars, rateVars>>

\* the chunking loop ends; the loop over the chunks begins
ChunksBuilt ==
    /\ parPc = "chunking"
    /\ ~lessThan(parI, Len(repositories))
    /\ parChunkNo' = 1
    /\ parPc' = IF chunks = <<>> THEN "done" ELSE "start"
    /\ UNCHANGED <<repositories, concurrency, parI, chunks, parRunning, parResults,
                   clsVars, hashVars, syncVars, cacheVars, keyVars, fmVars, ghVars, retryVars,
                   safeVars, rateVars>>

\* chunk.map(repo => processRepository(...)): every repository of the
\* chunk is started; await Promise.all(promises)
StartChunk ==
    /\ parPc = "start"
    /\ parRunning' = {chunks[parChunkNo][k] : k \in 1..Len(chunks[parChunkNo])}
    /\ parPc' = "await"
    /\ UNCHANGED <<repositories, concurrency, parI, chunks, parChunkNo, parResults,
                   clsVars, hashVars, syncVars, cacheVars, keyVars, fmVars, ghVars, retryVars,
                   safeVars, rateVars>>

\* processRepository of a running repository settles: it resolves to a
\* result with success true, or with success false from its catch
ProcessRepositorySettles ==
    /\ parPc = "await"
    /\ \E repo \in parRunning, success \in BOOLEAN :
          /\ parRunning' = parRunning \ {repo}
          /\ parResults' = Append(parResults, [repo |-> repo, success |-> success,
                                                chunk |-> parChunkNo,
                                                running |-> Cardinality(parRunning)])
    /\ UNCHANGED <<repositories, concurrency, parI, chunks, parChunkNo, parPc,
                   clsVars, hashVars, syncVars, cacheVars, keyVars, fmVars, ghVars, retryVars,
                   safeVars, rateVars>>

\* Promise.all resolves; the delay between chunks follows unless the chunk
\* is the last one
ChunkDone ==
    /\ parPc = "await"
    /\ parRunning = {}
    /\ parPc' = IF parChunkNo < Len(chunks) THEN "delay" ELSE "done"
    /\ UNCHANGED <<repositories, concurrency, parI, chunks, parChunkNo, parRunning, parResults,
                   clsVars, hashVars, syncVars, cacheVars, keyVars, fmVars, ghVars, retryVars,
                   safeVars, rateVars>>

\* the timer of rate_limit_delay fires; the next chunk
DelayElapses ==
    /\ parPc = "delay"
    /\ parChunkNo' = parChunkNo + 1
    /\ parPc' = "start"
    /\ UNCHANGED <<repositories, concurrency, parI, chunks, parRunning, parResults,
                   clsVars, hashVars, syncVars, cacheVars, keyVars, fmVars, ghVars, retryVars,
                   safeVars, rateVars>>

ParNext ==
    \/ PushChunk
    \/ ChunksBuilt
    \/ StartChunk
    \/ ProcessRepositorySettles
    \/ ChunkDone
    \/ DelayElapses

\* the results of a repository
ResultsOf(repo) == {k \in 1..Len(parResults) : parResults[k].repo = repo}

\* what holds at every point of processRepositoriesInParallel: no
\* repository is processed twice, at most concurrent_repos run at a time,
\* the running ones belong to the current chunk, and at the end every
\* repository has been processed
ParallelContract ==
    /\ \A i \in 1..Len(repositories) : Cardinality(ResultsOf(repositories[i])) <= 1
    /\ ~concurrency.nan => Cardinality(parRunning) <= concurrency.n
    /\ \A k \in 1..Len(parResults) : parResults[k].chunk <= parChunkNo
    /\ parRunning # {} =>
          /\ \A repo \in parRunning :
                \E k \in 1..Len(chunks[parChunkNo]) : chunks[parChunkNo][k] = repo
          /\ \A k \in 1..Len(parResults) :
                parResults[k].chunk < parChunkNo \/ parResults[k].repo \notin parRunning
    /\ parPc = "done" =>
          \A i \in 1..Len(repositories) : Cardinality(ResultsOf(repositories[i])) = 1

\* C40: processRepositoriesInParallel processes every repository exactly
\* once, runs at most concurrent_repos repositories at the same time, starts
\* a chunk only when the repositories of the chunk before it have settled,
\* whether they failed or not, and terminates.
C40_ChunkedProcessing == []ParallelContract /\ <>(parPc = "done")

(***************************************************************************)
(* Specifications                                                          *)
(***************************************************************************)
InitClassify == ClsInit /\ HashIdle /\ SyncIdle /\ CacheIdle /\ KeyIdle /\ FmIdle
                /\ GhIdle /\ RetryIdle /\ SafeIdle /\ RateIdle /\ ParIdle

InitHash == HashInit /\ ClsIdle /\ SyncIdle /\ CacheIdle /\ KeyIdle /\ FmIdle
            /\ GhIdle /\ RetryIdle /\ SafeIdle /\ RateIdle /\ ParIdle

InitSync == SyncInit /\ ClsIdle /\ HashIdle /\ CacheIdle /\ KeyIdle /\ FmIdle
            /\ GhIdle /\ RetryIdle /\ SafeIdle /\ RateIdle /\ ParIdle

InitCache == CacheInit /\ ClsIdle /\ HashIdle /\ SyncIdle /\ KeyIdle /\ FmIdle
             /\ GhIdle /\ RetryIdle /\ SafeIdle /\ RateIdle /\ ParIdle

InitKey == KeyInit /\ ClsIdle /\ HashIdle /\ SyncIdle /\ CacheIdle /\ FmIdle
           /\ GhIdle /\ RetryIdle /\ SafeIdle /\ RateIdle /\ ParIdle

InitPass == FmInit /\ ClsIdle /\ HashIdle /\ SyncIdle /\ CacheIdle /\ KeyIdle
            /\ GhIdle /\ RetryIdle /\ SafeIdle /\ RateIdle /\ ParIdle

SpecClassify == InitClassify /\ [][ClsNext]_vars

SpecHash == InitHash /\ [][HashNext]_vars

SpecSync == InitSync /\ [][SyncNext]_vars

SpecCache == InitCache /\ [][CacheNext]_vars

SpecKey == InitKey /\ [][KeyNext]_vars

SpecPass == InitPass /\ [][PassNext]_vars

InitGithub == GhInit /\ ClsIdle /\ HashIdle /\ SyncIdle /\ CacheIdle /\ KeyIdle /\ FmIdle
              /\ RetryIdle /\ SafeIdle /\ RateIdle /\ ParIdle

SpecGithub == InitGithub /\ [][GhNext]_vars

InitRetry == RetryInit /\ ClsIdle /\ HashIdle /\ SyncIdle /\ CacheIdle /\ KeyIdle /\ FmIdle
             /\ GhIdle /\ SafeIdle /\ RateIdle /\ ParIdle

InitSafe == SafeInit /\ ClsIdle /\ HashIdle /\ SyncIdle /\ CacheIdle /\ KeyIdle /\ FmIdle
            /\ GhIdle /\ RetryIdle /\ RateIdle /\ ParIdle

SpecSafe == InitSafe /\ [][SafeNext]_vars

InitRate == RateInit /\ ClsIdle /\ HashIdle /\ SyncIdle /\ CacheIdle /\ KeyIdle /\ FmIdle
            /\ GhIdle /\ RetryIdle /\ SafeIdle /\ ParIdle

SpecRate == InitRate /\ [][RateNext]_vars

InitParallel == ParInit /\ ClsIdle /\ HashIdle /\ SyncIdle /\ CacheIdle /\ KeyIdle /\ FmIdle
                /\ GhIdle /\ RetryIdle /\ SafeIdle /\ RateIdle

\* every processRepository settles and every timer fires
SpecParallel == InitParallel /\ [][ParNext]_vars /\ WF_vars(ParNext)

\* the event loop resumes the awaiting retry when operation() settles and
\* when the timer fires
SpecRetry == InitRetry /\ [][RetryNext]_vars /\ WF_vars(RetryNext)

====
